---- MODULE Spec2Model ----
(***************************************************************************)
(* Model of the retrieval-and-constraint pipeline of the mutual fund      *)
(* chatbot: QueryClassifier (backend/rag/query_classifier.py),            *)
(* ResponseFormatter (backend/rag/response_formatter.py),                 *)
(* RAGPipeline.query (backend/rag/rag_pipeline.py), DocumentProcessor     *)
(* (backend/rag/document_processor.py), EmbeddingStore                    *)
(* (backend/rag/embedding_store.py), the retry loop of GeminiClient       *)
(* (backend/llm/gemini_client.py) and the initialization of the pipeline  *)
(* by the API (backend/api/main.py).                                      *)
(*                                                                         *)
(* The specifications: Spec (query and classify_query), SpecDocuments     *)
(* (the chunker), SpecEmbeddings (the embedding store), SpecApi (the      *)
(* endpoints and the lazy initialization), SpecRetry (the attempts of one *)
(* generation request), SpecRetrieval (the filter of the passages by the  *)
(* name of a fund), SpecSearch (the hybrid search on the vectors of the   *)
(* store) and SpecIndex (query on the index with its vectors).            *)
(*                                                                         *)
(* Texts are TLA+ strings and are handled character by character, as the  *)
(* Python code handles them: `k in s` is a substring search, lower() maps *)
(* each character, and every regular expression of the source is written  *)
(* out as a search over positions of the string.                          *)
(***************************************************************************)
EXTENDS Integers, Sequences, FiniteSets, TLC

VARIABLES chunks, req, cls, resp, trace, data_dir, embeddings_cache, hash,
          rag_pipeline, rag_init_error, environ

vars == <<chunks, req, cls, resp, trace, data_dir, embeddings_cache, hash,
          rag_pipeline, rag_init_error, environ>>

\* the globals of the API and the environment of the process
api == <<rag_pipeline, rag_init_error, environ>>

-----------------------------------------------------------------------------
(* Python values *)

\* None, for fields that hold a string otherwise.
None == "<None>"

\* A key that the returned dict does not have.
Absent == "<absent>"

-----------------------------------------------------------------------------
(* Python string primitives *)

Char(s, i) == SubSeq(s, i, i)

\* k in s
Contains(k, s) ==
    \E i \in 1..(Len(s) - Len(k) + 1) : SubSeq(s, i, i + Len(k) - 1) = k

\* s.startswith(k)
StartsWith(s, k) == Len(k) <= Len(s) /\ SubSeq(s, 1, Len(k)) = k

\* s.endswith(k)
EndsWith(s, k) == Len(k) <= Len(s) /\ SubSeq(s, Len(s) - Len(k) + 1, Len(s)) = k

\* any(k in s for k in list)
AnyIn(list, s) == \E n \in 1..Len(list) : Contains(list[n], s)

UpperChars == "ABCDEFGHIJKLMNOPQRSTUVWXYZ"
LowerChars == "abcdefghijklmnopqrstuvwxyz"

\* the lower-case letter of each upper-case letter
ToLower ==
    [c \in {Char(UpperChars, i) : i \in 1..Len(UpperChars)} |->
        Char(LowerChars, CHOOSE i \in 1..Len(UpperChars) : Char(UpperChars, i) = c)]

LowerChar(c) == IF c \in DOMAIN ToLower THEN ToLower[c] ELSE c

\* s.lower(): every character mapped, the string taken half by half
RECURSIVE lower(_)
lower(s) ==
    IF Len(s) <= 1 THEN LowerChar(s)
    ELSE lower(SubSeq(s, 1, Len(s) \div 2)) \o lower(SubSeq(s, Len(s) \div 2 + 1, Len(s)))

\* The pieces of s between the characters of the set Sep, in order; two
\* neighbouring separators have the empty piece between them.
SplitBy(s, Sep) ==
    LET seps == {i \in 1..Len(s) : Char(s, i) \in Sep}
        \* the position of the n-th separator; 0 and Len(s) + 1 bound the string
        At(n) == IF n = 0 THEN 0
                 ELSE IF n > Cardinality(seps) THEN Len(s) + 1
                 ELSE CHOOSE i \in seps : Cardinality({j \in seps : j <= i}) = n
    IN  [n \in 1..(Cardinality(seps) + 1) |-> SubSeq(s, At(n - 1) + 1, At(n) - 1)]

WhiteSpace == {" ", "\t", "\n", "\r", "\f"}

\* s.strip()
RECURSIVE lstrip(_)
lstrip(s) == IF s # "" /\ Char(s, 1) \in WhiteSpace THEN lstrip(Tail(s)) ELSE s

RECURSIVE rstrip(_)
rstrip(s) ==
    IF s # "" /\ Char(s, Len(s)) \in WhiteSpace
    THEN rstrip(SubSeq(s, 1, Len(s) - 1)) ELSE s

strip(s) == rstrip(lstrip(s))

\* sep.join(seq)
RECURSIVE Join(_, _)
Join(seq, sep) ==
    IF Len(seq) = 0 THEN ""
    ELSE IF Len(seq) = 1 THEN seq[1]
    ELSE seq[1] \o sep \o Join(Tail(seq), sep)

\* seq[:n]
Take(seq, n) == SubSeq(seq, 1, IF n < Len(seq) THEN n ELSE Len(seq))

-----------------------------------------------------------------------------
(* Regular expression primitives (module re) *)

Digits == {"0", "1", "2", "3", "4", "5", "6", "7", "8", "9"}
Letters == {Char(LowerChars, i) : i \in 1..Len(LowerChars)}
              \cup {Char(UpperChars, i) : i \in 1..Len(UpperChars)}

IsAlpha(c) == c \in Letters
\* \w
IsWordChar(c) == c \in Digits \cup Letters \cup {"_"}

IsWordAt(s, p) == p >= 1 /\ p <= Len(s) /\ IsWordChar(Char(s, p))

\* \b between the characters at positions p and p + 1 (p in 0..Len(s))
Boundary(s, p) == IsWordAt(s, p) # IsWordAt(s, p + 1)

\* every character of s from..to is of the set Class
AllAt(s, from, to, Class) == \A p \in from..to : Char(s, p) \in Class

\* the literal k stands at position i of s
LitAt(s, i, k) == i >= 1 /\ i + Len(k) - 1 <= Len(s) /\ SubSeq(s, i, i + Len(k) - 1) = k

\* .* matches the characters from..to ( . matches no newline)
DotStar(s, from, to) == \A p \in from..to : Char(s, p) # "\n"

\* re.search(a + ".*" + b, s) for literals a and b
SearchDotStar(a, b, s) ==
    \E i \in 1..Len(s) : \E j \in 1..Len(s) :
        /\ LitAt(s, i, a)
        /\ j >= i + Len(a)
        /\ LitAt(s, j, b)
        /\ DotStar(s, i + Len(a), j - 1)

\* \b\d{lo,hi}\b starting at position i: the lengths n that match
DigitRunAt(s, i, n) ==
    /\ i >= 1 /\ i + n - 1 <= Len(s)
    /\ Boundary(s, i - 1)
    /\ AllAt(s, i, i + n - 1, Digits)
    /\ Boundary(s, i + n - 1)

-----------------------------------------------------------------------------
(* Bounds of the model *)

\* a question is made of at most MaxFragments of the fragments below
MaxFragments == 2

\* top_k ranges over 0..MaxTopK
MaxTopK == 2

\* the index is built from at most MaxFunds of the sample funds
MaxFunds == 2

-----------------------------------------------------------------------------
(* The inputs *)

\* The fragments that questions are made of, in the order in which they may
\* follow each other.
Fragments ==
    <<"Hello", "What is", "compare", "how to download", "Should I invest",
      "the expense ratio", "which is better", "of HDFC Flexi Cap Fund",
      "hdfc elss", "My PAN is ABCDE1234F", "mail a@b.com", "call 9876543210",
      "tell a joke">>

\* the strictly increasing sequences of 1..n of length at most k
RECURSIVE Increasing(_, _)
Increasing(n, k) ==
    IF k = 0 THEN {<<>>}
    ELSE Increasing(n, k - 1)
            \cup {Append(sq, m) : sq \in {x \in Increasing(n, k - 1) : Len(x) = k - 1},
                                  m \in 1..n}

StrictlyIncreasing(sq) == \A i \in 1..(Len(sq) - 1) : sq[i] < sq[i + 1]

Questions ==
    {Join([i \in 1..Len(sq) |-> Fragments[sq[i]]], " ") :
        sq \in {x \in Increasing(Len(Fragments), MaxFragments) :
                    Len(x) >= 1 /\ StrictlyIncreasing(x)}}

\* the fund_name argument of query
FundNames == {None, "HDFC Flexi Cap Fund", "ICICI Bluechip Fund"}

TopKs == 0..MaxTopK

\* Cosine similarities, in thousandths.
SCALE == 1000
SimLevels == {0, 600}

\* What the generation endpoint answers to one request: a result (with or
\* without candidates), an HTTPError (str(e), code, the message of the error
\* body or None) or another exception (str(e)).
RateLimited ==
    [kind |-> "http_error", text |-> "HTTP Error 429: Too Many Requests",
     code |-> 429, body_message |-> "Resource exhausted"]

TimedOut ==
    [kind |-> "exception", text |-> "<urlopen error timed out>",
     code |-> 0, body_message |-> None]

Answered ==
    [kind |-> "result", text |-> " The expense ratio is 0.5% and it outperforms. ",
     code |-> 200, body_message |-> None]

EndpointResponses ==
    { Answered,
      [kind |-> "result", text |-> "I could not find this. A. B. C.",
       code |-> 200, body_message |-> None],
      [kind |-> "result", text |-> "Nav is 10. Aum is 5! Sip is 1? Load is 0",
       code |-> 200, body_message |-> None],
      [kind |-> "no_candidates", text |-> "", code |-> 200, body_message |-> None],
      RateLimited,
      [kind |-> "http_error", text |-> "HTTP Error 500: Internal Server Error",
       code |-> 500, body_message |-> None],
      TimedOut }

\* What the endpoint answers during one call of query, request by request;
\* the last answer is repeated for every further request.
GenOutcomes ==
    {<<r>> : r \in EndpointResponses}
        \cup { <<RateLimited, Answered>>,
               <<TimedOut, Answered>>,
               <<RateLimited, RateLimited, RateLimited, Answered>> }

-----------------------------------------------------------------------------
(* QueryClassifier: the keyword tables *)

GREETING_PATTERNS ==
    <<"hello", "hi", "hey", "greetings", "good morning", "good afternoon",
      "good evening", "good night", "namaste", "namaskar", "thanks", "thank you",
      "bye", "goodbye", "see you", "how are you", "how do you do">>

FACTUAL_KEYWORDS ==
    <<"expense ratio", "exit load", "entry load", "minimum sip", "sip amount",
      "lock-in", "lock in", "riskometer", "benchmark", "nav", "aum",
      "fund manager", "launch date", "investment objective", "category",
      "download", "statement", "factsheet", "what is", "how to",
      "when", "where", "who", "which", "details", "information",
      "description", "describe", "overview", "explain", "meaning of",
      "capital-gains", "capital gains", "statements">>

GENERAL_FINANCE_KEYWORDS ==
    <<"what is", "what are", "what does", "what do",
      "explain", "define", "definition", "meaning",
      "how does", "how do", "how is", "how are",
      "tell me about", "can you explain", "can you tell me",
      "mutual fund", "mutual funds", "expense ratio", "exit load",
      "sip", "systematic investment plan", "lumpsum", "lump sum",
      "nav", "net asset value", "aum", "assets under management",
      "benchmark", "riskometer", "lock-in period", "lock in period",
      "direct plan", "regular plan", "growth option", "dividend option",
      "equity fund", "debt fund", "hybrid fund", "elss", "tax saver",
      "large cap", "mid cap", "small cap", "flexi cap", "multi cap",
      "fund manager", "amc", "asset management company", "sebi", "amfi",
      "factsheet", "portfolio", "diversification", "volatility", "returns",
      "investment", "investing", "investor", "redemption", "switch",
      "stp", "systematic transfer plan", "swp", "systematic withdrawal plan">>

OPINIONATED_KEYWORDS ==
    <<"should i", "should i buy", "should i sell", "should i invest",
      "is it good", "is it bad", "is.*good", "is.*bad", "good for", "bad for",
      "recommend", "advice", "opinion", "suggest",
      "best fund", "worst fund", "compare returns", "which is better",
      "performance", "returns", "profit", "loss", "gain",
      "worth", "worth it", "should invest", "good investment">>

PII_TYPES == <<"pan", "aadhaar", "account_number", "otp", "email", "phone">>

-----------------------------------------------------------------------------
(* QueryClassifier.PII_PATTERNS, searched with re.IGNORECASE *)

\* \b[A-Z]{5}[0-9]{4}[A-Z]\b
pan_pattern(s) ==
    \E i \in 1..(Len(s) - 9) :
        /\ Boundary(s, i - 1)
        /\ AllAt(s, i, i + 4, Letters)
        /\ AllAt(s, i + 5, i + 8, Digits)
        /\ IsAlpha(Char(s, i + 9))
        /\ Boundary(s, i + 9)

\* \b[0-9]{4}\s?[0-9]{4}\s?[0-9]{4}\b
aadhaar_pattern(s) ==
    \E i \in 1..Len(s) : \E g1 \in 0..1 : \E g2 \in 0..1 :
        /\ i + 11 + g1 + g2 <= Len(s)
        /\ Boundary(s, i - 1)
        /\ AllAt(s, i, i + 3, Digits)
        /\ g1 = 1 => Char(s, i + 4) \in WhiteSpace
        /\ AllAt(s, i + 4 + g1, i + 7 + g1, Digits)
        /\ g2 = 1 => Char(s, i + 8 + g1) \in WhiteSpace
        /\ AllAt(s, i + 8 + g1 + g2, i + 11 + g1 + g2, Digits)
        /\ Boundary(s, i + 11 + g1 + g2)

\* \b\d{9,18}\b
account_number_pattern(s) ==
    \E i \in 1..Len(s) : \E n \in 9..18 : DigitRunAt(s, i, n)

\* \b\d{4,6}\b.*otp|\botp.*\b\d{4,6}\b
otp_pattern(s) ==
    \/ \E i \in 1..Len(s) : \E n \in 4..6 : \E j \in 1..Len(s) :
          /\ DigitRunAt(s, i, n)
          /\ j >= i + n
          /\ j + 2 <= Len(s)
          /\ lower(SubSeq(s, j, j + 2)) = "otp"
          /\ DotStar(s, i + n, j - 1)
    \/ \E i \in 1..(Len(s) - 2) : \E j \in 1..Len(s) : \E n \in 4..6 :
          /\ Boundary(s, i - 1)
          /\ lower(SubSeq(s, i, i + 2)) = "otp"
          /\ j >= i + 3
          /\ DotStar(s, i + 3, j - 1)
          /\ DigitRunAt(s, j, n)

EmailLocalChar == Letters \cup Digits \cup {".", "_", "%", "+", "-"}
EmailDomainChar == Letters \cup Digits \cup {".", "-"}
EmailTldChar == Letters \cup {"|"}

\* \b[A-Za-z0-9._%+-]+@[A-Za-z0-9.-]+\.[A-Z|a-z]{2,}\b
email_pattern(s) ==
    \E a \in 2..Len(s) :
        /\ Char(s, a) = "@"
        /\ \E i \in 1..(a - 1) :
              /\ Boundary(s, i - 1)
              /\ AllAt(s, i, a - 1, EmailLocalChar)
        /\ \E d \in (a + 2)..Len(s) :
              /\ Char(s, d) = "."
              /\ AllAt(s, a + 1, d - 1, EmailDomainChar)
              /\ \E e \in (d + 2)..Len(s) :
                    /\ AllAt(s, d + 1, e, EmailTldChar)
                    /\ Boundary(s, e)

PhoneLeadChar(c) == c \in {"6", "7", "8", "9"}

\* [6-9]\d{9}\b starting at position i
PhoneDigitsAt(s, i) ==
    /\ i >= 1 /\ i + 9 <= Len(s)
    /\ PhoneLeadChar(Char(s, i))
    /\ AllAt(s, i + 1, i + 9, Digits)
    /\ Boundary(s, i + 9)

\* \b[6-9]\d{9}\b|\b\+91[6-9]\d{9}\b
phone_pattern(s) ==
    \/ \E i \in 1..Len(s) : Boundary(s, i - 1) /\ PhoneDigitsAt(s, i)
    \/ \E i \in 1..Len(s) :
          /\ Boundary(s, i - 1)
          /\ LitAt(s, i, "+91")
          /\ PhoneDigitsAt(s, i + 3)

PII_PATTERNS(pii_type, s) ==
    CASE pii_type = "pan" -> pan_pattern(s)
      [] pii_type = "aadhaar" -> aadhaar_pattern(s)
      [] pii_type = "account_number" -> account_number_pattern(s)
      [] pii_type = "otp" -> otp_pattern(s)
      [] pii_type = "email" -> email_pattern(s)
      [] pii_type = "phone" -> phone_pattern(s)

-----------------------------------------------------------------------------
(* QueryClassifier *)

\* The keys of the dict `detected`; the method returns None instead of an
\* empty dict, and None is modelled as the empty set: both are falsy and a
\* non-empty dict is truthy.
_detect_pii(query) ==
    {PII_TYPES[n] : n \in {m \in 1..Len(PII_TYPES) : PII_PATTERNS(PII_TYPES[m], query)}}

question_words == <<"what", "when", "where", "who", "which", "how">>

_is_factual(query_lower) ==
    \/ AnyIn(GREETING_PATTERNS, query_lower)
    \/ AnyIn(GENERAL_FINANCE_KEYWORDS, query_lower)
    \/ AnyIn(FACTUAL_KEYWORDS, query_lower)
    \/ \E n \in 1..Len(question_words) : StartsWith(query_lower, question_words[n])

factual_exclusions ==
    <<"how to download", "download statements", "download capital",
      "description of", "overview of", "meaning of", "what is the meaning">>

\* each regular expression a.*b as the pair <<a, b>>
comparison_patterns ==
    << <<"which", "better">>, <<"which", "best">>, <<"which", "worse">>,
       <<"compare", "fund">>, <<"better", "than">>, <<"worse", "than">> >>

\* _is_opinionated without the loop over comparison_patterns
_is_opinionated_keywords_only(query_lower) ==
    IF AnyIn(factual_exclusions, query_lower) THEN FALSE
    ELSE AnyIn(OPINIONATED_KEYWORDS, query_lower)

_is_opinionated(query_lower) ==
    IF AnyIn(factual_exclusions, query_lower) THEN FALSE
    ELSE IF AnyIn(OPINIONATED_KEYWORDS, query_lower) THEN TRUE
    ELSE \E n \in 1..Len(comparison_patterns) :
            SearchDotStar(comparison_patterns[n][1], comparison_patterns[n][2], query_lower)

\* _get_rejection_reason with the check of is_opinionated before the check of
\* pii_detected
_get_rejection_reason_opinion_first(is_factual, is_opinionated, pii_detected) ==
    IF is_opinionated THEN "opinionated"
    ELSE IF pii_detected # {} THEN "pii_detected"
    ELSE IF ~is_factual THEN "not_factual"
    ELSE None

\* _get_rejection_reason without the final return None
_get_rejection_reason_no_default(is_factual, is_opinionated, pii_detected) ==
    IF pii_detected # {} THEN "pii_detected"
    ELSE IF is_opinionated THEN "opinionated"
    ELSE "not_factual"

_get_rejection_reason(is_factual, is_opinionated, pii_detected) ==
    IF pii_detected # {} THEN "pii_detected"
    ELSE IF is_opinionated THEN "opinionated"
    ELSE IF ~is_factual THEN "not_factual"
    ELSE None

classify_query(query) ==
    LET query_lower == lower(query)
        pii_detected == _detect_pii(query)
        is_factual == _is_factual(query_lower)
        is_opinionated == _is_opinionated(query_lower)
        can_answer == is_factual /\ ~is_opinionated /\ ~(pii_detected # {})
    IN  [is_factual |-> is_factual,
         is_opinionated |-> is_opinionated,
         pii_detected |-> pii_detected,
         can_answer |-> can_answer,
         rejection_reason |->
             _get_rejection_reason(is_factual, is_opinionated, pii_detected)]

\* fund_indicators without the names of the products
fund_indicators_generic == <<"fund name", "scheme", "specific fund">>

fund_indicators ==
    <<"hdfc", "elss", "flexi cap", "large and mid cap",
      "fund name", "scheme", "specific fund">>

general_patterns ==
    <<"what is", "what are", "what does", "what do",
      "explain", "define", "definition", "meaning",
      "how does", "how do", "how is", "how are",
      "tell me about", "can you explain", "can you tell me">>

finance_terms ==
    <<"mutual fund", "expense ratio", "exit load", "sip",
      "nav", "aum", "benchmark", "riskometer", "lock-in",
      "direct plan", "regular plan", "equity", "debt",
      "fund", "investment", "investing", "portfolio",
      "amc", "sebi", "amfi", "elss", "tax saver">>

is_general_finance_question(query) ==
    LET query_lower == lower(query)
    IN  IF AnyIn(fund_indicators, query_lower) THEN FALSE
        ELSE \E n \in 1..Len(general_patterns) :
                /\ StartsWith(query_lower, general_patterns[n])
                      \/ Contains(general_patterns[n], query_lower)
                /\ AnyIn(finance_terms, query_lower)
                /\ ~AnyIn(fund_indicators, query_lower)

\* The classifier on each question of the model: the value of the call is
\* looked up where the pipeline makes it.
classify_query_of == [q \in Questions |-> classify_query(q)]

is_general_finance_question_of == [q \in Questions |-> is_general_finance_question(q)]

-----------------------------------------------------------------------------
(* RAGPipeline: the calls of the generation endpoint *)

\* self.gemini_client.api_key: GeminiClient.__init__ raises without one
api_key == "key"

NO_ANSWER == "I couldn't generate an answer. Please try rephrasing your question."

\* GeminiClient.max_retries
max_retries == 3

\* the answer of the endpoint to request number n of a call
ResponseAt(responses, n) ==
    IF n <= Len(responses) THEN responses[n] ELSE responses[Len(responses)]

\* GeminiClient._make_api_request_with_retry from the given attempt on: how
\* it ends (a result, or the exception it raises) and the number of requests
\* made. The body of an HTTPError is read here, so that a handler of the
\* raised error finds no body left to read.
RECURSIVE _make_api_request_with_retry(_, _)
_make_api_request_with_retry(responses, attempt) ==
    LET response == ResponseAt(responses, attempt + 1)
        error_detail == IF response.body_message # None THEN response.body_message
                        ELSE response.text
    IN  IF response.kind \in {"result", "no_candidates"}
        THEN [outcome |-> response, requests |-> attempt + 1]
        ELSE IF response.kind = "http_error" /\ response.code # 429
        THEN [outcome |-> [response EXCEPT !.body_message = None],
              requests |-> attempt + 1]
        ELSE IF attempt < max_retries
        THEN _make_api_request_with_retry(responses, attempt + 1)
        ELSE IF response.kind = "http_error"
        THEN [outcome |->
                [kind |-> "http_error",
                 text |-> "HTTP Error 429: Resource exhausted. API rate limit exceeded. Please try again later. "
                             \o error_detail,
                 code |-> 429,
                 body_message |-> None],
              requests |-> attempt + 1]
        ELSE [outcome |-> response, requests |-> attempt + 1]

\* the answers that the endpoint gave to the first n requests of a call
Served(responses, n) == [k \in 1..n |-> ResponseAt(responses, k)]

\* the requests of _generate_answer: those of _make_api_request_with_retry,
\* or none without an API key
_generate_answer_requests(responses) ==
    IF api_key = "" THEN <<>>
    ELSE Served(responses, _make_api_request_with_retry(responses, 0).requests)

\* the requests of _generate_general_finance_answer: one urlopen
_generate_general_finance_answer_requests(responses) == Served(responses, 1)

\* _generate_answer from the try statement on, outcome being how
\* _make_api_request_with_retry ends
_generate_answer_of(outcome) ==
    LET error_detail == IF outcome.body_message # None THEN outcome.body_message
                        ELSE outcome.text
        error_msg == IF api_key = "" THEN "Gemini API key is not set" ELSE outcome.text
    IN  IF api_key # "" /\ outcome.kind = "result" THEN strip(outcome.text)
        ELSE IF api_key # "" /\ outcome.kind = "no_candidates" THEN NO_ANSWER
        ELSE IF api_key # "" /\ outcome.kind = "http_error"
        THEN IF outcome.code = 429
             THEN "The API is currently experiencing high traffic. Please wait a moment and try again. If this persists, you may have reached your API quota limit."
             ELSE IF Contains("Resource exhausted", error_detail) \/ Contains("429", error_detail)
             THEN "The service is temporarily unavailable due to high demand. Please try again in a few moments."
             ELSE "I encountered an error while generating the answer. Please try again later."
        ELSE IF \/ Contains("429", error_msg)
                \/ Contains("rate limit", lower(error_msg))
                \/ Contains("Resource exhausted", error_msg)
        THEN "The API is currently experiencing high traffic. Please wait a moment and try again."
        ELSE "I encountered an error while generating the answer. Please try again later."

_generate_answer(question, context, responses) ==
    _generate_answer_of(_make_api_request_with_retry(responses, 0).outcome)

\* _generate_general_finance_answer: one urlopen, whose HTTPError is caught
\* as any other exception
_generate_general_finance_answer(question, responses) ==
    IF responses[1].kind = "result" THEN strip(responses[1].text)
    ELSE IF responses[1].kind = "no_candidates" THEN NO_ANSWER
    ELSE "Error generating answer: " \o responses[1].text

\* The texts that the two calls can return: the reply depends on how the call
\* of the endpoint ends, whatever the prompt was.
GeneratedTexts ==
    {_generate_answer("", "", responses) : responses \in GenOutcomes}
        \cup {_generate_general_finance_answer("", responses) : responses \in GenOutcomes}

-----------------------------------------------------------------------------
(* ResponseFormatter *)

MAX_SENTENCES == 3
EDUCATIONAL_LINK == "https://groww.in/p/mutual-funds"
FACTSHEET_BASE_URL == "https://groww.in/mutual-funds"

\* datetime.now().strftime("%Y-%m-%d")
strftime_now == "2025-01-15"

\* dict.get(key, default)
Get(d, key, default) == IF key \in DOMAIN d THEN d[key] ELSE default

\* \s
IsSpace == WhiteSpace
\* [0-9.]
IsNumChar == Digits \cup {"."}

\* the first position from p on that holds no character of the class
RunEnd(s, p, Class) ==
    CHOOSE q \in p..(Len(s) + 1) :
        /\ q = Len(s) + 1 \/ Char(s, q) \notin Class
        /\ \A r \in p..(q - 1) : Char(s, r) \in Class

(* Pieces of a pattern matched from position p (re.IGNORECASE): the position *)
(* after the match, or 0 when there is no match (p = 0: nothing to continue). *)
ILit(s, p, k) ==
    IF p >= 1 /\ p + Len(k) - 1 <= Len(s) /\ lower(SubSeq(s, p, p + Len(k) - 1)) = k
    THEN p + Len(k) ELSE 0

IOpt(s, p, k) == IF p = 0 THEN 0 ELSE IF ILit(s, p, k) # 0 THEN ILit(s, p, k) ELSE p

Plus(s, p, Class) ==
    IF p = 0 \/ p > Len(s) THEN 0
    ELSE IF Char(s, p) \notin Class THEN 0 ELSE RunEnd(s, p, Class)

\* (?:of|are|is)
OfAreIs(s, p) ==
    IF ILit(s, p, "of") # 0 THEN ILit(s, p, "of")
    ELSE IF ILit(s, p, "are") # 0 THEN ILit(s, p, "are")
    ELSE ILit(s, p, "is")

\* the patterns of _remove_performance_claims, matched at position i
performance_pattern(n, s, i) ==
    CASE n = 1 ->  \* returns?\s+(?:of|are|is)\s+[0-9.]+%
            ILit(s, Plus(s, Plus(s, OfAreIs(s, Plus(s, IOpt(s, ILit(s, i, "return"), "s"),
                 IsSpace)), IsSpace), IsNumChar), "%")
      [] n = 2 ->  \* [0-9.]+%\s+returns?
            IOpt(s, ILit(s, Plus(s, ILit(s, Plus(s, i, IsNumChar), "%"), IsSpace),
                 "return"), "s")
      [] n = 3 ->  \* outperforms?
            IOpt(s, ILit(s, i, "outperform"), "s")
      [] n = 4 ->  \* better\s+than
            ILit(s, Plus(s, ILit(s, i, "better"), IsSpace), "than")
      [] n = 5 ->  \* worse\s+than
            ILit(s, Plus(s, ILit(s, i, "worse"), IsSpace), "than")
      [] n = 6 ->  \* compare\s+returns?
            IOpt(s, ILit(s, Plus(s, ILit(s, i, "compare"), IsSpace), "return"), "s")

performance_replacement ==
    <<"", "", "", "", "",
      "For performance details, please refer to the official factsheet">>

\* re.sub(pattern n, replacement n, s) from position i on: the leftmost match
\* is replaced and the search goes on behind it; ends[j] is the position after
\* the match that starts at j, or 0
RECURSIVE ReSubFrom(_, _, _, _)
ReSubFrom(n, s, i, ends) ==
    LET starts == {j \in i..Len(s) : ends[j] # 0}
        first == CHOOSE j \in starts : \A k \in starts : j <= k
    IN  IF starts = {} THEN SubSeq(s, i, Len(s))
        ELSE SubSeq(s, i, first - 1) \o performance_replacement[n]
                \o ReSubFrom(n, s, ends[first], ends)

\* re.sub(pattern n, replacement n, s)
ReSub(n, s) == ReSubFrom(n, s, 1, [j \in 1..Len(s) |-> performance_pattern(n, s, j)])

RECURSIVE SubAll(_, _)
SubAll(n, text) ==
    IF n > Len(performance_replacement) THEN text
    ELSE SubAll(n + 1, ReSub(n, text))

_remove_performance_claims(text) == strip(SubAll(1, text))

\* _remove_performance_claims on each text that generation can return
_remove_performance_claims_of ==
    [text \in GeneratedTexts |-> _remove_performance_claims(text)]

\* each pattern as the literals that .* separates
no_info_patterns ==
    << <<"does not contain">>, <<"not available">>, <<"couldn't find">>,
       <<"could not find">>, <<"no information">>, <<"not in context">>,
       <<"not found">>, <<"unavailable">>, <<"does not have">>, <<"doesn't have">>,
       <<"not present">>, <<"not provided">>, <<"cannot find">>, <<"unable to find">>,
       <<"no data">>, <<"no details">>, <<"lacks information">>,
       <<"missing information">>, <<"insufficient information">>,
       <<"not enough information">>,
       <<"apologize", "not", "contain">>, <<"apologize", "not", "available">>,
       <<"apologize", "couldn't">>, <<"apologize", "no information">> >>

\* re.search of the literals lits[k..], separated by .*, in s from position i on
RECURSIVE SearchFrom(_, _, _, _)
SearchFrom(lits, k, s, i) ==
    IF k > Len(lits) THEN TRUE
    ELSE \E j \in i..Len(s) :
            /\ LitAt(s, j, lits[k])
            /\ k > 1 => DotStar(s, i, j - 1)
            /\ SearchFrom(lits, k + 1, s, j + Len(lits[k]))

_indicates_no_information(answer) ==
    LET answer_lower == lower(answer)
    IN  \E n \in 1..Len(no_info_patterns) : SearchFrom(no_info_patterns[n], 1, answer_lower, 1)

\* _indicates_no_information on each answer that format_answer checks
_indicates_no_information_of ==
    [answer \in {_remove_performance_claims_of[text] : text \in GeneratedTexts} |->
        _indicates_no_information(answer)]

IsSentenceEnd == {".", "!", "?"}

\* re.split(r'[.!?]+', s): a run of marks yields empty pieces here, and every
\* caller drops the empty pieces
ReSplit(s) == SplitBy(s, IsSentenceEnd)

\* [f(x) for x in seq]
StripAll(seq) == [n \in 1..Len(seq) |-> strip(seq[n])]

NonEmpty(x) == x # ""

EndsWithMark(s) == EndsWith(s, ".") \/ EndsWith(s, "!") \/ EndsWith(s, "?")

_add_citation(answer, citation_link, timestamp) ==
    LET answer_sentences == SelectSeq(StripAll(ReSplit(answer)), NonEmpty)
        limited == Join(Take(answer_sentences, MAX_SENTENCES), ". ")
        capped == IF Len(answer_sentences) > MAX_SENTENCES
                  THEN (IF EndsWithMark(limited) THEN limited ELSE limited \o ".")
                  ELSE answer
        citation_text == "Last updated from sources: " \o timestamp
                            \o ". For more details, visit: " \o citation_link
    IN  IF EndsWith(capped, ".") THEN capped \o " " \o citation_text
        ELSE capped \o ". " \o citation_text

\* config/fund_sources.json, read by _get_url_from_config: the entries of
\* "funds", each with its name and its sources
fund_sources_config ==
    << [name |-> "HDFC Flexi Cap Fund",
        sources |-> [groww |-> "https://groww.in/mutual-funds/hdfc-equity-fund-direct-growth"]] >>

_get_url_from_config(fund_name) ==
    IF fund_name = None \/ fund_name = "" THEN None
    ELSE LET hits == {n \in 1..Len(fund_sources_config) :
                        /\ fund_sources_config[n].name = fund_name
                        /\ DOMAIN fund_sources_config[n].sources
                              \cap {"hdfc", "sebi", "amfi_pdf", "groww"} # {}}
         IN  IF hits = {} THEN None
             ELSE LET sources == fund_sources_config[CHOOSE n \in hits : \A m \in hits : n <= m].sources
                  IN  IF "hdfc" \in DOMAIN sources THEN sources["hdfc"]
                      ELSE IF "sebi" \in DOMAIN sources THEN sources["sebi"]
                      ELSE IF "amfi_pdf" \in DOMAIN sources THEN sources["amfi_pdf"]
                      ELSE sources["groww"]

\* s.replace(' ', '-').replace('&', 'and'), the string taken half by half
RECURSIVE Slug(_)
Slug(s) ==
    IF Len(s) <= 1
    THEN (IF s = " " THEN "-" ELSE IF s = "&" THEN "and" ELSE s)
    ELSE Slug(SubSeq(s, 1, Len(s) \div 2)) \o Slug(SubSeq(s, Len(s) \div 2 + 1, Len(s)))

domain_priority == <<"hdfcfund.com", "sebi.gov.in", "amfiindia.com", "groww.in">>

\* the URL that the scan of one source's source_urls returns, or None
ScanSourceUrls(source_urls) ==
    LET byDomain == {d \in 1..Len(domain_priority) :
                        \E u \in 1..Len(source_urls) : Contains(domain_priority[d], source_urls[u])}
        http == {u \in 1..Len(source_urls) : StartsWith(source_urls[u], "http")}
        First(S) == CHOOSE n \in S : \A m \in S : n <= m
    IN  IF byDomain # {}
        THEN source_urls[First({u \in 1..Len(source_urls) :
                                  Contains(domain_priority[First(byDomain)], source_urls[u])})]
        ELSE IF http # {} THEN source_urls[First(http)]
        ELSE None

\* the URL that the loop over the sources returns at source n, or None
SourceUrl(source) ==
    LET metadata == Get(source, "metadata", [x \in {} |-> None])
        primary_url == Get(metadata, "primary_source_url", None)
        source_urls == Get(metadata, "source_urls", <<>>)
    IN  IF primary_url # None /\ primary_url # "" /\ StartsWith(primary_url, "http")
        THEN primary_url
        ELSE ScanSourceUrls(source_urls)

_get_citation_link(sources, fund_name) ==
    LET found == {n \in 1..Len(sources) : SourceUrl(sources[n]) # None}
        config_link == _get_url_from_config(fund_name)
        source_fund == IF Len(sources) > 0 THEN Get(sources[1], "fund_name", "") ELSE ""
    IN  IF found # {} THEN SourceUrl(sources[CHOOSE n \in found : \A m \in found : n <= m])
        ELSE IF config_link # None /\ config_link # "" THEN config_link
        ELSE IF fund_name # None /\ fund_name # ""
             THEN FACTSHEET_BASE_URL \o "/" \o Slug(lower(fund_name))
        ELSE IF source_fund # ""
             THEN FACTSHEET_BASE_URL \o "/" \o Slug(lower(source_fund))
        ELSE EDUCATIONAL_LINK

\* format_answer from the check of has_no_information on (lines 48-68)
format_checked(answer, sources, fund_name, has_no_information) ==
    LET is_general_question == Len(sources) = 0 /\ ~has_no_information
        cite == ~has_no_information /\ ~is_general_question
        citation_link == IF cite THEN _get_citation_link(sources, fund_name) ELSE ""
        timestamp == IF cite THEN strftime_now ELSE None
    IN  [answer |-> IF cite THEN _add_citation(answer, citation_link, timestamp)
                    ELSE answer,
         citation_link |-> citation_link,
         sources |-> sources,
         timestamp |-> timestamp]

\* format_answer from the check of is_greeting on (lines 36-68), answer being
\* the text without its performance claims
format_cleaned(answer, sources, fund_name, is_greeting) ==
    IF is_greeting
    THEN [answer |-> answer, citation_link |-> "", sources |-> sources,
          timestamp |-> None]
    ELSE format_checked(answer, sources, fund_name, _indicates_no_information_of[answer])

format_answer(answer0, sources, fund_name, is_greeting) ==
    format_cleaned(_remove_performance_claims_of[answer0], sources, fund_name, is_greeting)

rejection_messages ==
    [pii_detected |->
        [answer |-> "I appreciate you reaching out, but I cannot accept personal information like PAN, Aadhaar, account numbers, OTPs, emails, or phone numbers. Please do not share such information. I'm here to help with factual questions about mutual funds.",
         citation_link |-> "", rejected |-> TRUE, reason |-> "pii_detected",
         timestamp |-> None],
     opinionated |->
        [answer |-> "Thank you for your question. I can only provide factual information about mutual funds. I cannot provide investment advice, recommendations, or opinions. For educational resources on mutual fund investing, please visit: "
                       \o EDUCATIONAL_LINK \o ".",
         citation_link |-> "", rejected |-> TRUE, reason |-> "opinionated",
         timestamp |-> None],
     not_factual |->
        [answer |-> "Thank you for your question. I can help you with factual questions about mutual funds such as expense ratios, exit loads, minimum SIP amounts, lock-in periods, riskometer ratings, benchmarks, and how to download statements. Please feel free to ask me about any of these topics.",
         citation_link |-> "", rejected |-> TRUE, reason |-> "not_factual",
         timestamp |-> None]]

unknown_rejection ==
    [answer |-> "I can only answer factual questions about mutual funds.",
     citation_link |-> "", rejected |-> TRUE, reason |-> "unknown", timestamp |-> None]

MinSentenceLen == 10

LongEnough(x) == x # "" /\ Len(x) > MinSentenceLen

\* format_rejection_message without the cap on the sentences
format_rejection_message_uncapped(reason, query) ==
    IF reason \in DOMAIN rejection_messages
    THEN rejection_messages[reason] ELSE unknown_rejection

format_rejection_message(reason, query) ==
    LET result == IF reason \in DOMAIN rejection_messages
                  THEN rejection_messages[reason] ELSE unknown_rejection
        sentences == SelectSeq(StripAll(ReSplit(result.answer)), LongEnough)
        new_main == Join(Take(sentences, MAX_SENTENCES), ". ")
    IN  IF Len(sentences) > MAX_SENTENCES
        THEN [result EXCEPT !.answer =
                 IF EndsWithMark(new_main) THEN new_main ELSE new_main \o "."]
        ELSE result

\* format_rejection_message for each reason the classifier gives; the method
\* does not read its query argument
format_rejection_message_of ==
    [reason \in {"pii_detected", "opinionated", "not_factual", None} |->
        format_rejection_message(reason, "")]

-----------------------------------------------------------------------------
(* RAGPipeline *)

fund_patterns ==
    <<"hdfc large and mid cap fund", "hdfc flexi cap fund", "hdfc elss",
      "hdfc elss tax saver", "hdfc elss fund">>

_extract_fund_name_from_query(query) ==
    LET query_lower == lower(query)
        hits == {n \in 1..Len(fund_patterns) :
                    /\ Contains(fund_patterns[n], query_lower)
                    /\ \/ Contains("elss", fund_patterns[n])
                       \/ Contains("large and mid cap", fund_patterns[n])
                       \/ Contains("flexi cap", fund_patterns[n])}
        pattern == fund_patterns[CHOOSE n \in hits : \A m \in hits : n <= m]
    IN  IF hits = {} THEN None
        ELSE IF Contains("elss", pattern) THEN "HDFC ELSS Tax Saver Fund"
        ELSE IF Contains("large and mid cap", pattern) THEN "HDFC Large and Mid Cap Fund"
        ELSE "HDFC Flexi Cap Fund"

_extract_fund_name_from_query_of ==
    [q \in Questions |-> _extract_fund_name_from_query(q)]

\* set(s.split()): the words between runs of white space
SplitWords(s) ==
    LET pieces == SplitBy(s, IsSpace) IN {pieces[n] : n \in 1..Len(pieces)} \ {""}

common_words == {"the", "fund", "mutual"}

\* match_ratio >= 0.6, in tenths
MATCH_RATIO_TENTHS == 6

\* _fuzzy_fund_match where one common word is a match
_fuzzy_fund_match_any_word(query_fund, chunk_fund) ==
    LET query_words == SplitWords(lower(query_fund)) \ common_words
        chunk_words == SplitWords(lower(chunk_fund)) \ common_words
    IN  query_words \cap chunk_words # {}

_fuzzy_fund_match(query_fund, chunk_fund) ==
    LET query_words == SplitWords(lower(query_fund)) \ common_words
        chunk_words == SplitWords(lower(chunk_fund)) \ common_words
    IN  IF Cardinality(query_words) = 0 THEN FALSE
        ELSE 10 * Cardinality(query_words \cap chunk_words)
                >= MATCH_RATIO_TENTHS * Cardinality(query_words)

\* cosine_similarity(query_embedding, chunk['embedding']): the vector of the
\* question is given by its cosine with each vector of the index
cosine_similarity(query_embedding, embedding) == query_embedding[embedding]

important_terms ==
    <<"expense ratio", "exit load", "minimum sip", "lock-in",
      "riskometer", "benchmark", "nav", "aum">>

KEY_TERM_BOOST == 300
CHUNK_TYPE_BOOST == 200

\* the chunk type that the if/elif chain on the question boosts, or None
IntentChunkType(query_lower) ==
    IF Contains("expense", query_lower) \/ Contains("ratio", query_lower) THEN "fees_charges"
    ELSE IF Contains("exit load", query_lower) THEN "fees_charges"
    ELSE IF Contains("sip", query_lower) \/ Contains("minimum", query_lower)
         THEN "investment_details"
    ELSE IF Contains("lock", query_lower) THEN "investment_details"
    ELSE IF Contains("riskometer", query_lower) \/ Contains("benchmark", query_lower)
         THEN "risk_performance"
    ELSE None

keyword_boost(query_lower, chunk) ==
    LET chunk_text_lower == lower(chunk.text)
        key_terms == {n \in 1..Len(important_terms) : Contains(important_terms[n], query_lower)}
        chunk_type == Get(chunk.metadata, "chunk_type", "")
    IN  KEY_TERM_BOOST * Cardinality({n \in key_terms : Contains(important_terms[n], chunk_text_lower)})
          + (IF IntentChunkType(query_lower) = chunk_type THEN CHUNK_TYPE_BOOST ELSE 0)

\* min without its first argument
Min_uncapped(a, b) == b

Min(a, b) == IF a < b THEN a ELSE b

\* a sort by similarity that puts an element before its equals
RECURSIVE SortBySimilarity_ties_reversed(_)
SortBySimilarity_ties_reversed(results) ==
    IF Len(results) <= 1 THEN results
    ELSE LET x == results[Len(results)]
             rest == SortBySimilarity_ties_reversed(SubSeq(results, 1, Len(results) - 1))
             k == Cardinality({n \in 1..Len(rest) : rest[n].similarity > x.similarity})
         IN  SubSeq(rest, 1, k) \o <<x>> \o SubSeq(rest, k + 1, Len(rest))

\* results.sort(key=lambda x: x['similarity'], reverse=True): a stable sort
RECURSIVE SortBySimilarity(_)
SortBySimilarity(results) ==
    IF Len(results) <= 1 THEN results
    ELSE LET x == results[Len(results)]
             rest == SortBySimilarity(SubSeq(results, 1, Len(results) - 1))
             k == Cardinality({n \in 1..Len(rest) : rest[n].similarity >= x.similarity})
         IN  SubSeq(rest, 1, k) \o <<x>> \o SubSeq(rest, k + 1, Len(rest))

\* the list `results` of _hybrid_search before it is sorted: each chunk with
\* its combined score
scored_chunks(query, query_embedding, search_chunks) ==
    LET query_lower == lower(query)
    IN  [n \in 1..Len(search_chunks) |->
            LET chunk == search_chunks[n]
                semantic_sim == cosine_similarity(query_embedding, chunk.embedding)
                boost == keyword_boost(query_lower, chunk)
            IN  [chunk |-> chunk,
                 similarity |-> Min(SCALE, semantic_sim + boost),
                 semantic_sim |-> semantic_sim,
                 keyword_boost |-> boost]]

_hybrid_search(query, query_embedding, search_chunks, top_k) ==
    Take(SortBySimilarity(scored_chunks(query, query_embedding, search_chunks)), top_k)

greeting_keywords ==
    <<"hello", "hi", "hey", "greetings", "good morning", "good afternoon",
      "good evening", "good night", "namaste", "namaskar", "thanks", "thank you",
      "bye", "goodbye", "see you", "how are you", "how do you do">>

\* is_greeting where a greeting must be a word of the question
is_greeting_words ==
    [q \in Questions |->
        \E n \in 1..Len(greeting_keywords) : greeting_keywords[n] \in SplitWords(strip(lower(q)))]

\* is_greeting where the question must be a greeting and nothing else
is_greeting_exact ==
    [q \in Questions |->
        \E n \in 1..Len(greeting_keywords) : greeting_keywords[n] = strip(lower(q))]

\* is_greeting of query, for each question of the model
is_greeting_of ==
    [q \in Questions |-> AnyIn(greeting_keywords, strip(lower(q)))]

GREETING_CONTEXT == "This is a greeting or general conversation. Respond politely and offer help."

NO_INFORMATION ==
    "I couldn't find relevant information to answer your question. Please ensure your question is about factual information like expense ratios, exit loads, minimum SIP amounts, lock-in periods, riskometer ratings, benchmarks, or how to download statements. How else can I help you?"

\* the error list with the word "error" only
error_keywords_error_only == <<"error">>

error_keywords ==
    <<"error", "encountered an error", "experiencing high traffic",
      "temporarily unavailable", "rate limit", "quota limit",
      "api is currently", "please wait a moment">>

GREETING_CONFIDENCE == 500
GENERAL_CONFIDENCE == 700

\* a call that query makes
Call(name) == [call |-> name]

\* bool(x) of a str or None
Truthy(x) == x # None /\ x # ""

\* search_chunks without the fall-back to all chunks
search_chunks_of_no_fallback(all_chunks, fund_name) ==
    LET exact == SelectSeq(all_chunks,
                    LAMBDA c : Contains(lower(fund_name), lower(Get(c.metadata, "fund_name", ""))))
        fuzzy == SelectSeq(all_chunks,
                    LAMBDA c : _fuzzy_fund_match(fund_name, Get(c.metadata, "fund_name", "")))
    IN  IF ~Truthy(fund_name) THEN all_chunks
        ELSE IF Len(exact) > 0 THEN exact
        ELSE fuzzy

\* search_chunks of query: the chunks of the fund, else the chunks that match
\* it fuzzily, else all chunks
search_chunks_of(all_chunks, fund_name) ==
    LET exact == SelectSeq(all_chunks,
                    LAMBDA c : Contains(lower(fund_name), lower(Get(c.metadata, "fund_name", ""))))
        fuzzy == SelectSeq(all_chunks,
                    LAMBDA c : _fuzzy_fund_match(fund_name, Get(c.metadata, "fund_name", "")))
    IN  IF ~Truthy(fund_name) THEN all_chunks
        ELSE IF Len(exact) > 0 THEN exact
        ELSE IF Len(fuzzy) > 0 THEN fuzzy
        ELSE all_chunks

\* "\n\n".join of the sources of the context
context_text_of(context_parts) ==
    Join([n \in 1..Len(context_parts) |->
            "[Source: " \o context_parts[n].fund_name \o " - "
                \o context_parts[n].chunk_type \o "]\n" \o context_parts[n].text],
         "\n\n")

\* The steps of RAGPipeline.query. Each yields the dict that query returns
\* and the calls that query makes, in order (_hybrid_search with the funds of
\* the chunks it searched, their scores, the number of chunks it returned
\* and their metadata and scores, a call of the
\* generation with the answers the endpoint gave to its requests,
\* _generate_answer also with the funds of its context).

classify_calls == <<Call("classify_query"), Call("is_general_finance_question")>>

\* the return of the greeting branch
greeting_response(formatted, responses) ==
    [resp |-> [answer |-> formatted.answer,
               sources |-> <<>>,
               confidence |-> GREETING_CONFIDENCE,
               citation_link |-> Get(formatted, "citation_link", ""),
               timestamp |-> Get(formatted, "timestamp", None)],
     trace |-> <<[call |-> "_generate_answer", funds |-> {},
                  requests |-> _generate_answer_requests(responses)],
                 Call("format_answer")>>]

\* the return of the rejection
rejected_response(rejection) ==
    [resp |-> [answer |-> rejection.answer,
               sources |-> <<>>,
               confidence |-> 0,
               rejected |-> TRUE,
               rejection_reason |-> rejection.reason,
               citation_link |-> rejection.citation_link,
               timestamp |-> Get(rejection, "timestamp", None)],
     trace |-> classify_calls \o <<Call("format_rejection_message")>>]

\* the return of the general finance branch
general_response(formatted, responses) ==
    [resp |-> [answer |-> formatted.answer,
               sources |-> <<>>,
               confidence |-> GENERAL_CONFIDENCE,
               citation_link |-> Get(formatted, "citation_link", ""),
               timestamp |-> Get(formatted, "timestamp", None)],
     trace |-> classify_calls
                 \o <<[call |-> "_generate_general_finance_answer",
                       requests |-> _generate_general_finance_answer_requests(responses)],
                      Call("format_answer")>>]

\* the calls from the extraction of the fund name to the hybrid search
retrieval_calls(fund_name0, search_chunks, scored, similar_chunks, top_k) ==
    (IF ~Truthy(fund_name0) THEN <<Call("_extract_fund_name_from_query")>> ELSE <<>>)
      \o <<Call("generate_embedding"),
           [call |-> "_hybrid_search",
            funds |-> {Get(search_chunks[n].metadata, "fund_name", "") :
                          n \in 1..Len(search_chunks)},
            top_k |-> top_k,
            candidates |-> [n \in 1..Len(scored) |->
                               [embedding |-> scored[n].chunk.embedding,
                                similarity |-> scored[n].similarity]],
            returned |-> Len(similar_chunks),
            results |-> [n \in 1..Len(similar_chunks) |->
                            [metadata |-> similar_chunks[n].chunk.metadata,
                             embedding |-> similar_chunks[n].chunk.embedding,
                             similarity |-> similar_chunks[n].similarity]]]>>

\* the return when the search found no chunk
no_chunks_response(calls) ==
    [resp |-> [answer |-> NO_INFORMATION,
               sources |-> <<>>,
               confidence |-> 0,
               citation_link |-> EDUCATIONAL_LINK],
     trace |-> calls]

\* context_parts: the context of the chunks found, sorted by similarity
context_parts_of(similar_chunks) ==
    SortBySimilarity(
        [n \in 1..Len(similar_chunks) |->
            [text |-> similar_chunks[n].chunk.text,
             fund_name |-> Get(similar_chunks[n].chunk.metadata, "fund_name", "Unknown"),
             chunk_type |-> Get(similar_chunks[n].chunk.metadata, "chunk_type", "general"),
             similarity |-> similar_chunks[n].similarity,
             metadata |-> similar_chunks[n].chunk.metadata]])

\* the sources that query hands to format_answer
sources_of(context_parts) ==
    [n \in 1..Len(context_parts) |->
        [fund_name |-> context_parts[n].fund_name,
         chunk_type |-> context_parts[n].chunk_type,
         similarity |-> context_parts[n].similarity]]

generate_call(context_parts, responses) ==
    [call |-> "_generate_answer",
     funds |-> {context_parts[n].fund_name : n \in 1..Len(context_parts)},
     requests |-> _generate_answer_requests(responses)]

\* the return for an answer that is an error message
error_response(answer, calls) ==
    [resp |-> [answer |-> answer,
               sources |-> <<>>,
               confidence |-> 0,
               citation_link |-> "",
               timestamp |-> None],
     trace |-> calls]

\* the return for a formatted answer, with the similarity of the last
\* context part as confidence
formatted_response_last(formatted, context_parts, calls) ==
    [resp |-> [answer |-> formatted.answer,
               sources |-> formatted.sources,
               confidence |-> IF Len(context_parts) > 0
                              THEN context_parts[Len(context_parts)].similarity ELSE 0,
               citation_link |-> formatted.citation_link,
               timestamp |-> formatted.timestamp],
     trace |-> calls \o <<Call("format_answer")>>]

\* the return for a formatted answer
formatted_response(formatted, context_parts, calls) ==
    [resp |-> [answer |-> formatted.answer,
               sources |-> formatted.sources,
               confidence |-> IF Len(context_parts) > 0
                              THEN context_parts[1].similarity ELSE 0,
               citation_link |-> formatted.citation_link,
               timestamp |-> formatted.timestamp],
     trace |-> calls \o <<Call("format_answer")>>]

\* query from the check of the generated answer on
query_answered(fund_name, context_parts, answer, calls) ==
    IF AnyIn(error_keywords, lower(answer))
    THEN error_response(answer, calls)
    ELSE formatted_response(
            format_answer(answer, sources_of(context_parts), fund_name, FALSE),
            context_parts, calls)

\* query from the context string on
query_context(question, fund_name, responses, context_parts, calls) ==
    query_answered(fund_name, context_parts,
        _generate_answer(question, context_text_of(context_parts), responses),
        calls \o <<generate_call(context_parts, responses)>>)

\* query from the result of the hybrid search on
query_retrieved(question, fund_name, responses, similar_chunks, calls) ==
    IF Len(similar_chunks) = 0
    THEN no_chunks_response(calls)
    ELSE query_context(question, fund_name, responses,
            context_parts_of(similar_chunks), calls)

\* query from the embedding of the question on
query_search(question, fund_name0, fund_name, top_k, responses, query_embedding, search_chunks) ==
    query_retrieved(question, fund_name, responses,
        _hybrid_search(question, query_embedding, search_chunks, top_k),
        classify_calls
          \o retrieval_calls(fund_name0, search_chunks,
                scored_chunks(question, query_embedding, search_chunks),
                _hybrid_search(question, query_embedding, search_chunks, top_k),
                top_k))

\* query from the filter of the chunks on, fund_name being the fund given or
\* else the fund extracted from the question
query_fund(all_chunks, question, fund_name0, fund_name, top_k, responses, query_embedding) ==
    query_search(question, fund_name0, fund_name, top_k, responses, query_embedding,
        search_chunks_of(all_chunks, fund_name))

\* query from the classification on
query_classified(all_chunks, question, fund_name0, top_k, responses, query_embedding, classification) ==
    IF ~classification.can_answer
    THEN rejected_response(format_rejection_message_of[classification.rejection_reason])
    ELSE IF is_general_finance_question_of[question]
    THEN general_response(
            format_answer(_generate_general_finance_answer(question, responses),
                          <<>>, fund_name0, FALSE),
            responses)
    ELSE query_fund(all_chunks, question, fund_name0,
            IF ~Truthy(fund_name0) THEN _extract_fund_name_from_query_of[question]
            ELSE fund_name0,
            top_k, responses, query_embedding)

\* RAGPipeline.query. responses is what the generation endpoint answers, request
\* by request, if query calls it; query_embedding is the vector generate_embedding
\* returns for the question.
query(all_chunks, question, fund_name0, top_k, responses, query_embedding) ==
    IF is_greeting_of[question]
    THEN greeting_response(
            format_answer(_generate_answer(question, GREETING_CONTEXT, responses),
                          <<>>, fund_name0, TRUE),
            responses)
    ELSE query_classified(all_chunks, question, fund_name0, top_k, responses,
            query_embedding, classify_query_of[question])

-----------------------------------------------------------------------------
(* JSON values, as json.load returns them *)

\* A value carries its Python type; a dict is the sequence of its items, in
\* the order of the file.
Str(s) == [type |-> "str", value |-> s]
Null == [type |-> "NoneType", value |-> None]
Dict(items) == [type |-> "dict", value |-> items]
List(items) == [type |-> "list", value |-> items]

\* key in d
Has(d, key) == \E i \in 1..Len(d) : d[i].key = key

\* d[key]
Item(d, key) == d[CHOOSE i \in 1..Len(d) : d[i].key = key].value

\* d.get(key, default)
GetItem(d, key, default) == IF Has(d, key) THEN Item(d, key) ELSE default

\* repr(v)
RECURSIVE repr(_)
repr(v) ==
    IF v.type = "str" THEN "'" \o v.value \o "'"
    ELSE IF v.type = "NoneType" THEN "None"
    ELSE IF v.type = "dict"
    THEN "{" \o Join([i \in 1..Len(v.value) |->
                        "'" \o v.value[i].key \o "': " \o repr(v.value[i].value)], ", ") \o "}"
    ELSE "[" \o Join([i \in 1..Len(v.value) |-> repr(v.value[i])], ", ") \o "]"

\* str(v), and {v} in an f-string
str(v) == IF v.type = "str" THEN v.value ELSE repr(v)

\* bool(v)
bool(v) == IF v.type = "NoneType" THEN FALSE ELSE Len(v.value) > 0

\* the upper-case letter of each lower-case letter
ToUpper ==
    [c \in {Char(LowerChars, i) : i \in 1..Len(LowerChars)} |->
        Char(UpperChars, CHOOSE i \in 1..Len(LowerChars) : Char(LowerChars, i) = c)]

\* s.replace('_', ' ').title(): a letter is upper case after a character that
\* is no letter and lower case after a letter
title(s) ==
    LET spaced == [i \in 1..Len(s) |-> IF Char(s, i) = "_" THEN " " ELSE Char(s, i)]
        Cased(i) == IF ~IsAlpha(spaced[i]) THEN spaced[i]
                    ELSE IF i > 1 /\ IsAlpha(spaced[i - 1]) THEN LowerChar(spaced[i])
                    ELSE IF spaced[i] \in DOMAIN ToUpper THEN ToUpper[spaced[i]]
                    ELSE spaced[i]
    IN  Join([i \in 1..Len(s) |-> Cased(i)], "")

-----------------------------------------------------------------------------
(* DocumentProcessor (backend/rag/document_processor.py) *)

\* The lines of a passage: the heading, then one line per field of `fields`
\* that the record has; fields is a sequence of <<key, label>>.
FieldLines(data, fields) ==
    LET present == {n \in 1..Len(fields) : Has(data, fields[n][1])}
        \* the n-th present field, in the order of the code
        Nth(n) == CHOOSE f \in present : Cardinality({g \in present : g <= f}) = n
    IN  [n \in 1..Cardinality(present) |->
            fields[Nth(n)][2] \o ": " \o str(Item(data, fields[Nth(n)][1]))]

\* The fields that the passage of each category renders by their names, each
\* with its label, in the order of the code; the expense ratio has lines of
\* its own.
category_fields ==
    [basic_info |-> << <<"fund_category", "Category">>,
                       <<"scheme_type", "Scheme Type">>,
                       <<"asset_class", "Asset Class">>,
                       <<"launch_date", "Launch Date">>,
                       <<"investment_objective", "Investment Objective">> >>,
     investment_details |-> << <<"minimum_sip", "Minimum SIP Amount">>,
                               <<"minimum_sip_amount", "Minimum SIP Amount">>,
                               <<"minimum_lumpsum", "Minimum Lumpsum Investment">>,
                               <<"minimum_lumpsum_investment", "Minimum Lumpsum Investment">>,
                               <<"lock_in_period", "Lock-in Period">>,
                               <<"available_plans", "Available Plans">>,
                               <<"available_options", "Available Options">> >>,
     fees_charges |-> << <<"exit_load", "Exit Load">>,
                         <<"entry_load", "Entry Load">> >>,
     risk_performance |-> << <<"riskometer", "Riskometer Rating">>,
                             <<"benchmark_index", "Benchmark Index">>,
                             <<"benchmark", "Benchmark Index">>,
                             <<"nav", "NAV">>,
                             <<"aum", "AUM (Assets Under Management)">>,
                             <<"fund_managers", "Fund Manager(s)">> >>]

\* return "\n".join(parts): the heading is always a part
_format_basic_info(fund_name, data) ==
    Join(<<"Fund Name: " \o fund_name>> \o FieldLines(data, category_fields.basic_info), "\n")

\* "\n".join(parts) if len(parts) > 1 else ""
JoinParts(heading, lines) ==
    IF Len(lines) > 0 THEN Join(<<heading>> \o lines, "\n") ELSE ""

_format_investment_details(fund_name, data) ==
    JoinParts("Investment Details for " \o fund_name \o ":",
              FieldLines(data, category_fields.investment_details))

\* the lines of the expense ratio
ExpenseRatioLines(expense_ratio) ==
    IF expense_ratio.type = "dict"
    THEN IF Has(expense_ratio.value, "direct_plan") /\ Has(expense_ratio.value, "regular_plan")
         THEN <<"Expense Ratio - Direct Plan: " \o str(Item(expense_ratio.value, "direct_plan")),
                "Expense Ratio - Regular Plan: " \o str(Item(expense_ratio.value, "regular_plan"))>>
                 \o FieldLines(expense_ratio.value, << <<"as_on_date", "As on Date">> >>)
         ELSE <<"Expense Ratio: " \o str(expense_ratio)>>
    ELSE IF expense_ratio.type = "list"
    THEN [n \in 1..Len(expense_ratio.value) |->
            LET er == expense_ratio.value[n]
            IN  IF er.type = "dict"
                THEN "Expense Ratio - " \o str(GetItem(er.value, "plan_type", Str("Unknown")))
                        \o ": " \o str(GetItem(er.value, "value", Str("N/A")))
                        \o str(GetItem(er.value, "unit", Str("")))
                        \o " (as on " \o str(GetItem(er.value, "as_on_date", Str(""))) \o ")"
                ELSE "Expense Ratio: " \o str(er)]
    ELSE <<"Expense Ratio: " \o str(expense_ratio)>>

_format_fees_charges(fund_name, data) ==
    JoinParts("Fees and Charges for " \o fund_name \o ":",
              (IF Has(data, "expense_ratio")
               THEN ExpenseRatioLines(Item(data, "expense_ratio")) ELSE <<>>)
                \o FieldLines(data, category_fields.fees_charges))

_format_risk_performance(fund_name, data) ==
    JoinParts("Risk and Performance for " \o fund_name \o ":",
              FieldLines(data, category_fields.risk_performance))

excluded_fields ==
    {"fund_name", "fund_category", "scheme_type", "asset_class", "launch_date",
     "investment_objective", "minimum_sip", "minimum_lumpsum", "lock_in_period",
     "available_plans", "available_options", "expense_ratio", "exit_load",
     "entry_load", "riskometer", "benchmark_index", "nav", "aum", "fund_managers"}

_format_additional_info(fund_name, data) ==
    LET kept == {i \in 1..Len(data) :
                    /\ data[i].key \notin excluded_fields
                    /\ ~EndsWith(data[i].key, "_alternatives")
                    /\ bool(data[i].value)
                    /\ strip(str(data[i].value)) # ""}
        Nth(n) == CHOOSE i \in kept : Cardinality({j \in kept : j <= i}) = n
    IN  JoinParts("Additional Information for " \o fund_name \o ":",
                  [n \in 1..Cardinality(kept) |->
                      title(data[Nth(n)].key) \o ": " \o str(data[Nth(n)].value)])

DEFAULT_FALLBACK_URL == "https://groww.in/p/mutual-funds"

\* the first fund of config/fund_sources.json with this name and a source of
\* one of the four kinds decides; HDFC > SEBI > AMFI > Groww
_get_fallback_url(fund_name) ==
    LET hits == {n \in 1..Len(fund_sources_config) :
                    /\ fund_sources_config[n].name = fund_name
                    /\ DOMAIN fund_sources_config[n].sources
                          \cap {"hdfc", "sebi", "amfi_pdf", "groww"} # {}}
    IN  IF hits = {} THEN DEFAULT_FALLBACK_URL
        ELSE LET sources == fund_sources_config[CHOOSE n \in hits : \A m \in hits : n <= m].sources
             IN  IF "hdfc" \in DOMAIN sources THEN sources["hdfc"]
                 ELSE IF "sebi" \in DOMAIN sources THEN sources["sebi"]
                 ELSE IF "amfi_pdf" \in DOMAIN sources THEN sources["amfi_pdf"]
                 ELSE sources["groww"]

\* for url in source_urls: if domain in url: return url
FirstWith(source_urls, domain) ==
    source_urls[CHOOSE u \in 1..Len(source_urls) :
                    /\ Contains(domain, source_urls[u])
                    /\ \A v \in 1..(u - 1) : ~Contains(domain, source_urls[v])]

\* _get_primary_source_url without the priority of the domains
_get_primary_source_url_first(source_urls, fund_name) ==
    LET valid == {u \in 1..Len(source_urls) :
                    source_urls[u] # "" /\ StartsWith(source_urls[u], "http")}
    IN  IF valid # {} THEN source_urls[CHOOSE u \in valid : \A v \in valid : u <= v]
        ELSE _get_fallback_url(fund_name)

_get_primary_source_url(source_urls, fund_name) ==
    LET HasDomain(domain) == \E u \in 1..Len(source_urls) : Contains(domain, source_urls[u])
        valid == {u \in 1..Len(source_urls) :
                    source_urls[u] # "" /\ StartsWith(source_urls[u], "http")}
    IN  IF Len(source_urls) = 0 THEN _get_fallback_url(fund_name)
        ELSE IF HasDomain("hdfcfund.com") THEN FirstWith(source_urls, "hdfcfund.com")
        ELSE IF HasDomain("sebi.gov.in") THEN FirstWith(source_urls, "sebi.gov.in")
        ELSE IF HasDomain("amfiindia.com") THEN FirstWith(source_urls, "amfiindia.com")
        ELSE IF HasDomain("groww.in") THEN FirstWith(source_urls, "groww.in")
        ELSE IF valid # {} THEN source_urls[CHOOSE u \in valid : \A v \in valid : u <= v]
        ELSE _get_fallback_url(fund_name)

\* the URLs of the sources list: source['url'] of a dict that has it, the
\* source itself if it is a string
SourceUrls(sources) ==
    LET with == {n \in 1..Len(sources) :
                    \/ sources[n].type = "dict" /\ Has(sources[n].value, "url")
                    \/ sources[n].type = "str"}
        Nth(n) == CHOOSE i \in with : Cardinality({j \in with : j <= i}) = n
    IN  [n \in 1..Cardinality(with) |->
            IF sources[Nth(n)].type = "dict"
            THEN Item(sources[Nth(n)].value, "url").value
            ELSE sources[Nth(n)].value]

\* The categories of the passages, in the order of process_fund_to_chunks.
chunk_types ==
    <<"basic_info", "investment_details", "fees_charges", "risk_performance",
      "additional_info">>

\* the text of the passage of one category
FormatChunk(chunk_type, fund_name, data) ==
    CASE chunk_type = "basic_info" -> _format_basic_info(fund_name, data)
      [] chunk_type = "investment_details" -> _format_investment_details(fund_name, data)
      [] chunk_type = "fees_charges" -> _format_fees_charges(fund_name, data)
      [] chunk_type = "risk_performance" -> _format_risk_performance(fund_name, data)
      [] chunk_type = "additional_info" -> _format_additional_info(fund_name, data)

\* fund_data is a dict with the optional keys fund_name (a string), data (the
\* items of a dict) and sources (a list)
process_fund_to_chunks(fund_data) ==
    LET fund_name == Get(fund_data, "fund_name", "Unknown Fund")
        data == Get(fund_data, "data", <<>>)
        source_urls == SourceUrls(Get(fund_data, "sources", <<>>))
        primary_source_url == _get_primary_source_url(source_urls, fund_name)
        texts == [n \in 1..Len(chunk_types) |-> FormatChunk(chunk_types[n], fund_name, data)]
        \* if basic_info: chunks.append(...), and so on for each category
        made == {n \in 1..Len(chunk_types) : texts[n] # ""}
        Nth(n) == CHOOSE i \in made : Cardinality({j \in made : j <= i}) = n
    IN  [n \in 1..Cardinality(made) |->
            [text |-> texts[Nth(n)],
             metadata |-> [fund_name |-> fund_name,
                           chunk_type |-> chunk_types[Nth(n)],
                           source |-> "structured_data",
                           source_urls |-> source_urls,
                           primary_source_url |-> primary_source_url]]]

\* chunks of all the records of a list, one after the other
RECURSIVE ChunksOfFunds(_)
ChunksOfFunds(funds) ==
    IF Len(funds) = 0 THEN <<>>
    ELSE process_fund_to_chunks(funds[1]) \o ChunksOfFunds(Tail(funds))

\* max(consolidated_files, key=lambda p: p.stat().st_mtime): the first file
\* of the greatest modification time
latest_consolidated(consolidated_files) ==
    consolidated_files[CHOOSE n \in 1..Len(consolidated_files) :
        /\ \A m \in 1..Len(consolidated_files) :
              consolidated_files[m].st_mtime <= consolidated_files[n].st_mtime
        /\ \A m \in 1..(n - 1) :
              consolidated_files[m].st_mtime < consolidated_files[n].st_mtime]

\* The loop over the individual files from file n on: a file is chunked if
\* its fund_name is not in processed_funds, and its fund_name is added.
RECURSIVE IndividualChunks(_, _, _)
IndividualChunks(individual_files, n, processed_funds) ==
    IF n > Len(individual_files) THEN <<>>
    ELSE LET fund_data == individual_files[n].json
             fund_name == Get(fund_data, "fund_name", "")
         IN  IF fund_name \notin processed_funds
             THEN process_fund_to_chunks(fund_data)
                    \o IndividualChunks(individual_files, n + 1, processed_funds \cup {fund_name})
             ELSE IndividualChunks(individual_files, n + 1, processed_funds)

\* dir holds the files that glob("all_funds_*.json") and
\* glob("HDFC_*.json") list, each with its st_mtime and with json, what
\* load_fund_data returns for it; processed_funds starts empty after the
\* consolidated file was chunked.
process_all_funds(dir) ==
    (IF Len(dir.consolidated_files) > 0
     THEN ChunksOfFunds(Get(latest_consolidated(dir.consolidated_files).json, "funds", <<>>))
     ELSE <<>>)
        \o IndividualChunks(dir.individual_files, 1, {})

-----------------------------------------------------------------------------
(* EmbeddingStore (backend/rag/embedding_store.py) *)

\* the length of a vector
EMBEDDING_DIM == 128

\* text.split(): the non-empty pieces between white space
split(text) ==
    LET pieces == SplitBy(text, WhiteSpace)
        kept == {n \in 1..Len(pieces) : pieces[n] # ""}
        Nth(n) == CHOOSE i \in kept : Cardinality({j \in kept : j <= i}) = n
    IN  [n \in 1..Cardinality(kept) |-> pieces[Nth(n)]]

\* the greatest number that divides every number of the non-empty set S
GCD(S) == CHOOSE g \in 1..(CHOOSE m \in S : TRUE) :
              /\ \A m \in S : m % g = 0
              /\ \A h \in (g + 1)..(CHOOSE m \in S : TRUE) : \E m \in S : m % h # 0

\* The vector of a text under the hash function hash_fn of the process.
\* Position hash(word) % 128 receives freq / len(words) for every word and the
\* vector is divided by its norm: the result is the unit vector in the
\* direction of the counts per position.  It is written as the counts
\* divided by their greatest common divisor, at the positions that are not
\* 0.0; two unit vectors are equal exactly if these are.
_simple_embedding(hash_fn, text) ==
    LET words == split(lower(text))
        idx(n) == hash_fn[words[n]] % EMBEDDING_DIM
        support == {idx(n) : n \in 1..Len(words)}
        count == [i \in support |-> Cardinality({n \in 1..Len(words) : idx(n) = i})]
    IN  IF support = {} THEN [i \in {} |-> 0]
        ELSE [i \in support |-> count[i] \div GCD({count[j] : j \in support})]

\* text_hash = str(hash(text))
text_hash(hash_fn, text) == ToString(hash_fn[text])

\* generate_embedding: what it returns and the cache it leaves
generate_embedding(hash_fn, cache, text) ==
    LET key == text_hash(hash_fn, text)
        embedding == _simple_embedding(hash_fn, text)
    IN  IF key \in DOMAIN cache
        THEN [embedding |-> cache[key].embedding, cache |-> cache]
        ELSE [embedding |-> embedding,
              cache |-> [k \in DOMAIN cache \cup {key} |->
                            IF k = key THEN [embedding |-> embedding, text |-> Take(text, 100)]
                            ELSE cache[k]]]

\* generate_embeddings_batch: the cache after the texts from text n on
RECURSIVE generate_embeddings_batch(_, _, _, _)
generate_embeddings_batch(hash_fn, cache, texts, n) ==
    IF n > Len(texts) THEN cache
    ELSE generate_embeddings_batch(hash_fn, generate_embedding(hash_fn, cache, texts[n]).cache,
                                   texts, n + 1)

-----------------------------------------------------------------------------
(* The data files and the records *)

\* key: value, an item of a dict
KV(key, value) == [key |-> key, value |-> value]

\* The records of the sample funds, as the data files hold them.
SampleFunds ==
    << [fund_name |-> "HDFC Flexi Cap Fund",
        data |-> <<KV("expense_ratio", Str("0.5%"))>>,
        sources |-> <<Dict(<<KV("url", Str("https://www.hdfcfund.com/flexi-cap"))>>)>>],
       [fund_name |-> "HDFC ELSS Tax Saver Fund",
        data |-> <<>>],
       [fund_name |-> "HDFC Large and Mid Cap Fund",
        data |-> <<KV("minimum_sip", Str("100"))>>,
        sources |-> <<>>] >>

\* a data file: its modification time and what load_fund_data returns for it
File(st_mtime, json) == [st_mtime |-> st_mtime, json |-> json]

\* {}: a dict without items, also what load_fund_data returns for a file
\* that it cannot read
EmptyDict == [k \in {} |-> None]

\* the data directory with one consolidated file of the first n sample funds
SampleDir(n) ==
    [consolidated_files |-> <<File(1, [funds |-> SubSeq(SampleFunds, 1, n)])>>,
     individual_files |-> <<>>]

\* self.chunks after _initialize_chunks; chunk['embedding'] = embedding: the
\* vector of chunk n is named by n
_initialize_chunks(dir) ==
    LET all == process_all_funds(dir)
    IN  [i \in 1..Len(all) |->
            [text |-> all[i].text, metadata |-> all[i].metadata, embedding |-> i]]

Indexes ==
    {_initialize_chunks(SampleDir(n)) :
        n \in 0..(IF MaxFunds < Len(SampleFunds) THEN MaxFunds ELSE Len(SampleFunds))}

\* The values of the key data of a record.
SampleData ==
    { <<>>,
      <<KV("fund_category", Str("Equity"))>>,
      <<KV("minimum_sip", Str("100")), KV("minimum_sip_amount", Str("500"))>>,
      <<KV("expense_ratio", Dict(<<KV("direct_plan", Str("0.77%")),
                                   KV("regular_plan", Str("1.5%")),
                                   KV("as_on_date", Str("2025-01-01"))>>)),
        KV("exit_load", Str("1%"))>>,
      <<KV("expense_ratio", List(<<Dict(<<KV("plan_type", Str("Direct")),
                                          KV("value", Str("0.77")),
                                          KV("unit", Str("%"))>>),
                                   Str("1.5%")>>))>>,
      <<KV("expense_ratio", Dict(<<KV("direct_plan", Str("0.77%"))>>))>>,
      <<KV("riskometer", Str("Very High")), KV("benchmark", Str("NIFTY 500"))>>,
      <<KV("fund_house", Str("HDFC")), KV("nav_alternatives", Str("10")),
        KV("notes", Str(" ")), KV("isin", Null)>>,
      <<KV("notes", Str(""))>>,
      <<KV("fund_category", Str("Equity")), KV("minimum_sip", Str("100")),
        KV("expense_ratio", Str("0.5%")), KV("riskometer", Str("Very High")),
        KV("fund_house", Str("HDFC"))>> }

\* The values of the key sources of a record.
SampleSources ==
    { <<>>,
      <<Str("https://groww.in/mutual-funds/hdfc-elss"),
        Dict(<<KV("url", Str("https://www.sebi.gov.in/elss")), KV("type", Str("sebi"))>>)>>,
      <<Str("factsheet.pdf"), Str("https://example.org/elss")>>,
      <<Dict(<<KV("source", Str("unknown")), KV("url", Str(""))>>),
        Str("www.hdfc.com/factsheet.pdf")>> }

\* The records that process_fund_to_chunks is called with: each of the three
\* keys may be missing.
FundRecords ==
    {[k \in keys |-> full[k]] :
        keys \in SUBSET {"fund_name", "data", "sources"},
        full \in [fund_name : {"HDFC Flexi Cap Fund"}, data : SampleData,
                  sources : SampleSources]}

\* at most MaxFiles individual files are in the data directory
MaxFiles == 2

\* What the individual files HDFC_*.json hold: a sample fund, the first
\* sample fund with other data, or nothing that can be read.
IndividualJson ==
    {SampleFunds[1], SampleFunds[2],
     [fund_name |-> "HDFC Flexi Cap Fund", data |-> <<KV("exit_load", Str("1%"))>>],
     EmptyDict}

\* What the consolidated files all_funds_*.json hold.
ConsolidatedJson ==
    {[funds |-> <<>>], [funds |-> SubSeq(SampleFunds, 1, 1)],
     [funds |-> SubSeq(SampleFunds, 1, 2)], EmptyDict}

\* the sequences of elements of S of length at most n
RECURSIVE SeqsUpTo(_, _)
SeqsUpTo(S, n) ==
    IF n = 0 THEN {<<>>}
    ELSE SeqsUpTo(S, n - 1)
            \cup {Append(sq, x) : sq \in {y \in SeqsUpTo(S, n - 1) : Len(y) = n - 1}, x \in S}

\* The data directories: no consolidated file, one, or an older and a newer
\* one in either order of the listing, and at most MaxFiles individual files.
DataDirs ==
    {[consolidated_files |-> c, individual_files |-> [n \in 1..Len(i) |-> File(1, i[n])]] :
        c \in {<<>>} \cup {<<File(1, j)>> : j \in ConsolidatedJson}
                \cup {<<File(1, [funds |-> SubSeq(SampleFunds, 1, 1)]),
                        File(2, [funds |-> SubSeq(SampleFunds, 2, 2)])>>,
                      <<File(2, [funds |-> SubSeq(SampleFunds, 2, 2)]),
                        File(1, [funds |-> SubSeq(SampleFunds, 1, 1)])>>,
                      <<File(1, [funds |-> SubSeq(SampleFunds, 1, 1)]),
                        File(1, [funds |-> SubSeq(SampleFunds, 2, 2)])>>},
        i \in SeqsUpTo(IndividualJson, MaxFiles)}

\* The texts that are embedded, and the strings that are hashed for them.
Texts == {"nav", "NAV aum"}
HashedStrings == Texts \cup {"aum"}

\* What hash() may return in one process: hash randomization gives every
\* process its own function of the strings.
HashValues == {0, 1, 128}
HashFunctions == [HashedStrings -> HashValues]

\* embeddings.json: absent, or as written by an earlier process, with the
\* hash function of that process, after it embedded the texts in some order.
PreloadedCaches ==
    {EmptyDict}
        \cup {generate_embeddings_batch(h, EmptyDict, texts, 1) :
                h \in HashFunctions, texts \in SeqsUpTo(Texts, 2)}

-----------------------------------------------------------------------------
(* The state machine *)

\* no call is in progress / nothing was returned
Nil == [nil |-> TRUE]

\* The pipeline was constructed over a data directory; the vectors of the
\* index are named by their passages, so the embedding store is not read.
Init ==
    /\ \E n \in 0..(IF MaxFunds < Len(SampleFunds) THEN MaxFunds ELSE Len(SampleFunds)) :
          data_dir = SampleDir(n)
    /\ chunks = _initialize_chunks(data_dir)
    /\ req = Nil
    /\ cls = Nil
    /\ resp = Nil
    /\ trace = <<>>
    /\ embeddings_cache = Nil
    /\ hash = Nil
    /\ rag_pipeline = Nil
    /\ rag_init_error = None
    /\ environ = Nil

Idle == req = Nil /\ cls = Nil

\* a caller runs RAGPipeline.query(question, fund_name, top_k)
Query ==
    /\ Idle
    /\ \E question \in Questions, fund_name \in FundNames, top_k \in TopKs :
       \E responses \in GenOutcomes, query_embedding \in [1..Len(chunks) -> SimLevels] :
          LET r == query(chunks, question, fund_name, top_k, responses, query_embedding)
          IN  /\ req' = [question |-> question, fund_name |-> fund_name, top_k |-> top_k]
              /\ resp' = r.resp
              /\ trace' = r.trace
    /\ UNCHANGED <<chunks, cls, data_dir, embeddings_cache, hash, api>>

\* a caller runs QueryClassifier.classify_query(query)
ClassifyQuery ==
    /\ Idle
    /\ \E question \in Questions :
          cls' = [query |-> question, result |-> classify_query_of[question]]
    /\ UNCHANGED <<chunks, req, resp, trace, data_dir, embeddings_cache, hash, api>>

\* the caller has taken the result of its call
Return ==
    /\ ~Idle
    /\ req' = Nil
    /\ cls' = Nil
    /\ resp' = Nil
    /\ trace' = <<>>
    /\ UNCHANGED <<chunks, data_dir, embeddings_cache, hash, api>>

Next == Query \/ ClassifyQuery \/ Return

Spec == Init /\ [][Next]_vars

-----------------------------------------------------------------------------
(* The state machine of the document processor *)

\* the index is built at most MaxBuilds times from the data directory
MaxBuilds == 2

\* self.chunks = [] of a pipeline under construction; trace holds the indexes
\* built so far from the data directory.
InitDocuments ==
    /\ data_dir \in DataDirs
    /\ chunks = <<>>
    /\ req = Nil
    /\ cls = Nil
    /\ resp = Nil
    /\ trace = <<>>
    /\ embeddings_cache = Nil
    /\ hash = Nil
    /\ rag_pipeline = Nil
    /\ rag_init_error = None
    /\ environ = Nil

\* RAGPipeline._initialize_chunks runs process_all_funds over the directory
InitializeChunks ==
    /\ Idle
    /\ Len(trace) < MaxBuilds
    /\ chunks' = _initialize_chunks(data_dir)
    /\ trace' = Append(trace, chunks')
    /\ UNCHANGED <<req, cls, resp, data_dir, embeddings_cache, hash, api>>

\* a caller runs DocumentProcessor.process_fund_to_chunks(fund_data)
ProcessFundToChunks ==
    /\ Idle
    /\ \E fund_data \in FundRecords :
          /\ req' = [fund_data |-> fund_data]
          /\ resp' = [chunks |-> process_fund_to_chunks(fund_data)]
    /\ UNCHANGED <<chunks, cls, trace, data_dir, embeddings_cache, hash, api>>

\* the caller has taken the passages
ReturnChunks ==
    /\ ~Idle
    /\ req' = Nil
    /\ resp' = Nil
    /\ UNCHANGED <<chunks, cls, trace, data_dir, embeddings_cache, hash, api>>

NextDocuments == InitializeChunks \/ ProcessFundToChunks \/ ReturnChunks

SpecDocuments == InitDocuments /\ [][NextDocuments]_vars

-----------------------------------------------------------------------------
(* The state machine of the embedding store *)

\* generate_embedding is called at most MaxCalls times
MaxCalls == 2

\* EmbeddingStore.__init__: the cache is loaded from embeddings.json; trace
\* holds the calls of generate_embedding, each with what it returned.
InitEmbeddings ==
    /\ hash \in HashFunctions
    /\ embeddings_cache \in PreloadedCaches
    /\ chunks = <<>>
    /\ req = Nil
    /\ cls = Nil
    /\ resp = Nil
    /\ trace = <<>>
    /\ data_dir = Nil
    /\ rag_pipeline = Nil
    /\ rag_init_error = None
    /\ environ = Nil

\* a caller runs EmbeddingStore.generate_embedding(text)
GenerateEmbedding ==
    /\ Len(trace) < MaxCalls
    /\ \E text \in Texts :
          LET r == generate_embedding(hash, embeddings_cache, text)
              key == text_hash(hash, text)
          IN  /\ trace' = Append(trace,
                    [text |-> text,
                     embedding |-> r.embedding,
                     \* the text recorded with the entry that was served
                     served |-> IF key \in DOMAIN embeddings_cache
                                THEN embeddings_cache[key].text ELSE None])
              /\ embeddings_cache' = r.cache
    /\ UNCHANGED <<chunks, req, cls, resp, data_dir, hash, api>>

NextEmbeddings == GenerateEmbedding

SpecEmbeddings == InitEmbeddings /\ [][NextEmbeddings]_vars

-----------------------------------------------------------------------------
(* The API (backend/api/main.py) *)

\* The directories that get_rag_pipeline tries for the data, in its order:
\* the one under the project root, then the alternatives.
data_paths ==
    <<"/app/data/scraped", "/srv/data/scraped", "/var/task/data/scraped", "/tmp/data/scraped">>

\* What a process may find: the value of GEMINI_API_KEY (None if it is not
\* set), the data directories that exist, and the exception that the
\* constructor of the embedding store raises on its storage directory, or
\* None.
Environments ==
    [GEMINI_API_KEY : {None, "", "key"},
     exists : {{}, {data_paths[1]}, {data_paths[3]}},
     storage : {None, "[Errno 30] Read-only file system: 'data/embeddings'"}]

KEY_NOT_SET ==
    "GEMINI_API_KEY environment variable not set. Please configure it in Vercel project settings under Environment Variables."

\* the first directory that exists, or None
FoundDataDir(env) ==
    LET found == {n \in 1..Len(data_paths) : data_paths[n] \in env.exists}
    IN  IF found = {} THEN None ELSE data_paths[CHOOSE n \in found : \A m \in found : n <= m]

\* str(e) of the exception raised in the try block of get_rag_pipeline, or
\* None if RAGPipeline(...) was constructed
InitException(env) ==
    IF env.GEMINI_API_KEY = None \/ env.GEMINI_API_KEY = "" THEN KEY_NOT_SET
    ELSE IF FoundDataDir(env) = None
    THEN "Data directory not found. Tried: " \o data_paths[1]
            \o " and alternatives. Please ensure data files are included in deployment."
    ELSE env.storage

\* the handler `except Exception as e` of get_rag_pipeline
InitErrorOf(error_msg) ==
    IF Contains("GEMINI_API_KEY", error_msg) \/ Contains("Gemini API key", error_msg)
    THEN "Gemini API key is missing or invalid. Please set GEMINI_API_KEY in Vercel environment variables."
    ELSE IF Contains("Data directory", error_msg) \/ Contains("not found", error_msg)
    THEN "Data files not found. Please ensure scraped data is included in the deployment."
    ELSE "Failed to initialize RAG pipeline: " \o error_msg

\* get_rag_pipeline, had it kept a stored error instead of trying again
get_rag_pipeline_no_retry(pipeline, init_error, env) ==
    IF pipeline # Nil \/ init_error # None
    THEN [rag_pipeline |-> pipeline, rag_init_error |-> init_error]
    ELSE IF InitException(env) = None
    THEN [rag_pipeline |-> [data_dir |-> FoundDataDir(env)], rag_init_error |-> None]
    ELSE [rag_pipeline |-> Nil, rag_init_error |-> InitErrorOf(InitException(env))]

\* get_rag_pipeline: the globals it leaves; the pipeline is Nil for None
get_rag_pipeline(pipeline, init_error, env) ==
    IF pipeline # Nil THEN [rag_pipeline |-> pipeline, rag_init_error |-> init_error]
    ELSE IF InitException(env) = None
    THEN [rag_pipeline |-> [data_dir |-> FoundDataDir(env)], rag_init_error |-> None]
    ELSE [rag_pipeline |-> Nil, rag_init_error |-> InitErrorOf(InitException(env))]

\* rag_init_error or "RAG pipeline not initialized. Please check server logs."
NotInitialized(init_error) ==
    [status_code |-> 503,
     detail |-> IF init_error # None /\ init_error # "" THEN init_error
                ELSE "RAG pipeline not initialized. Please check server logs."]

\* QueryResponse(...) of the result of pipeline.query
QueryResponse(request, result) ==
    [status_code |-> 200,
     answer |-> result.answer,
     sources |-> result.sources,
     confidence |-> result.confidence,
     query |-> request.question,
     citation_link |-> Get(result, "citation_link", ""),
     timestamp |-> Get(result, "timestamp", None),
     rejected |-> Get(result, "rejected", FALSE),
     rejection_reason |-> Get(result, "rejection_reason", None)]

\* The requests of /api/query: question has min_length 1 and top_k is at
\* least 1.
ApiQuestions == {"Hello", "What is", "What is the expense ratio", "My PAN is ABCDE1234F"}
ApiRequests == [question : ApiQuestions, fund_name : {None, "HDFC Flexi Cap Fund"}, top_k : {1, 2}]

\* the data directory that is deployed, wherever it is found
DeployedDir == SampleDir(1)

\* The process has started; nothing was initialized yet.
InitApi ==
    /\ rag_pipeline = Nil
    /\ rag_init_error = None
    /\ environ \in Environments
    /\ data_dir = DeployedDir
    /\ chunks = <<>>
    /\ req = Nil
    /\ cls = Nil
    /\ resp = Nil
    /\ trace = <<>>
    /\ embeddings_cache = Nil
    /\ hash = Nil

\* the globals after get_rag_pipeline(), and self.chunks of the pipeline
GetRagPipeline ==
    LET got == get_rag_pipeline(rag_pipeline, rag_init_error, environ)
    IN  /\ rag_pipeline' = got.rag_pipeline
        /\ rag_init_error' = got.rag_init_error
        /\ chunks' = IF rag_pipeline = Nil /\ got.rag_pipeline # Nil
                     THEN _initialize_chunks(data_dir) ELSE chunks

\* POST /api/query
QueryFunds ==
    /\ Idle
    /\ GetRagPipeline
    /\ \E request \in ApiRequests, responses \in {<<Answered>>, <<RateLimited>>} :
       \E query_embedding \in [1..Len(chunks') -> SimLevels] :
          /\ req' = request
          /\ resp' = IF rag_pipeline' = Nil THEN NotInitialized(rag_init_error')
                     ELSE QueryResponse(request,
                             query(chunks', request.question, request.fund_name, request.top_k,
                                   responses, query_embedding).resp)
    /\ UNCHANGED <<cls, trace, data_dir, embeddings_cache, hash, environ>>

\* GET /api/health, and the startup event
HealthCheck ==
    /\ Idle
    /\ GetRagPipeline
    /\ req' = [endpoint |-> "/api/health"]
    /\ resp' = [status_code |-> 200,
                status |-> IF rag_pipeline' # Nil THEN "healthy" ELSE "unhealthy",
                rag_initialized |-> rag_pipeline' # Nil,
                chunks_loaded |-> Len(chunks')]
    /\ UNCHANGED <<cls, trace, data_dir, embeddings_cache, hash, environ>>

\* the response was sent
ReturnApi ==
    /\ ~Idle
    /\ req' = Nil
    /\ resp' = Nil
    /\ UNCHANGED <<chunks, cls, trace, data_dir, embeddings_cache, hash, api>>

\* the deployment is configured anew: the next invocation finds another
\* environment
Configure ==
    /\ Idle
    /\ environ' \in Environments \ {environ}
    /\ UNCHANGED <<chunks, req, cls, resp, trace, data_dir, embeddings_cache, hash,
                   rag_pipeline, rag_init_error>>

NextApi == QueryFunds \/ HealthCheck \/ ReturnApi \/ Configure

SpecApi == InitApi /\ [][NextApi]_vars

-----------------------------------------------------------------------------
(* The retry loop of GeminiClient._make_api_request_with_retry, attempt by
   attempt. req holds the call in progress and the loop variable, trace the
   requests made and the waits slept, resp how the call ended. *)

retry_delay_base == 2

\* wait_time of a retry, had the delay not grown
wait_time_constant(attempt) == retry_delay_base

\* wait_time of the retry after the failure of the given attempt
wait_time(attempt) == retry_delay_base * (2 ^ attempt)

\* the error raised once a rate limit has exhausted the attempts
ResourceExhausted(response) ==
    [kind |-> "http_error",
     text |-> "HTTP Error 429: Resource exhausted. API rate limit exceeded. Please try again later. "
                 \o (IF response.body_message # None THEN response.body_message
                     ELSE response.text),
     code |-> 429,
     body_message |-> None]

\* one iteration of the loop over the attempts: what follows the response
AttemptBody(attempt, response) ==
    IF response.kind \in {"result", "no_candidates"}
    THEN [then |-> "return", value |-> response]
    ELSE IF response.kind = "http_error"
    THEN IF response.code = 429
         THEN IF attempt < max_retries
              THEN [then |-> "continue", value |-> wait_time(attempt)]
              ELSE [then |-> "raise", value |-> ResourceExhausted(response)]
         ELSE [then |-> "raise", value |-> [response EXCEPT !.body_message = None]]
    ELSE IF attempt < max_retries
    THEN [then |-> "continue", value |-> wait_time(attempt)]
    ELSE [then |-> "raise", value |-> response]

InitRetry ==
    /\ req = Nil
    /\ resp = Nil
    /\ trace = <<>>
    /\ chunks = <<>>
    /\ cls = Nil
    /\ data_dir = Nil
    /\ embeddings_cache = Nil
    /\ hash = Nil
    /\ rag_pipeline = Nil
    /\ rag_init_error = None
    /\ environ = Nil

\* a caller runs _make_api_request_with_retry(prompt)
MakeApiRequest ==
    /\ req = Nil
    /\ req' = [prompt |-> "prompt", attempt |-> 0]
    /\ resp' = Nil
    /\ trace' = <<>>
    /\ UNCHANGED <<chunks, cls, data_dir, embeddings_cache, hash, api>>

\* one attempt: the request, and the return, the raise or the wait after it
Attempt ==
    /\ req # Nil
    /\ resp = Nil
    /\ \E response \in EndpointResponses :
          LET body == AttemptBody(req.attempt, response)
              request == [event |-> "urlopen", response |-> response]
          IN  IF body.then = "continue"
              THEN /\ trace' = trace \o <<request, [event |-> "sleep", seconds |-> body.value]>>
                   /\ req' = [req EXCEPT !.attempt = @ + 1]
                   /\ resp' = resp
              ELSE /\ trace' = Append(trace, request)
                   /\ req' = req
                   /\ resp' = [then |-> body.then, value |-> body.value]
    /\ UNCHANGED <<chunks, cls, data_dir, embeddings_cache, hash, api>>

\* the caller has the result, or handles the exception
ReturnRetry ==
    /\ req # Nil
    /\ resp # Nil
    /\ req' = Nil
    /\ resp' = Nil
    /\ UNCHANGED <<chunks, cls, trace, data_dir, embeddings_cache, hash, api>>

NextRetry == MakeApiRequest \/ Attempt \/ ReturnRetry

SpecRetry == InitRetry /\ [][NextRetry]_vars

\* every urlopen ends within its timeout and every sleep ends: the loop goes on
FairSpecRetry == SpecRetry /\ WF_vars(Attempt)

-----------------------------------------------------------------------------
(* RAGPipeline.query on the names of products: the index of up to three
   products, and names that are contained in a product name, that match one
   fuzzily, or that match none *)

RetrievalNames ==
    {None, "", "HDFC Flexi Cap Fund", "hdfc flexi", "hdfc flexi fund", "Fund",
     "The Mutual Fund", "HDFC Large Cap Growth Direct", "hdfc bluechip",
     "ICICI Bluechip Fund"}

RetrievalQuestions ==
    {"Hello", "What is", "What is hdfc elss", "What is the expense ratio",
     "What is of HDFC Flexi Cap Fund", "of HDFC Flexi Cap Fund hdfc elss"}

\* questions with and without the known names of products
AliasQuestions ==
    {"HDFC Large and Mid Cap Fund", "what is the nav of hdfc flexi cap fund",
     "What is HDFC ELSS", "explain hdfc elss tax saver", "What is the HDFC ELSS Fund",
     "what is hdfc elss fund and hdfc flexi cap fund",
     "Explain HDFC Large and Mid Cap Fund or hdfc elss tax saver",
     "What is the expense ratio", "what is hdfc flexi", "What is a flexi cap fund",
     "what is the nav of hdfc large & mid cap fund"}

InitRetrieval ==
    /\ \E n \in 0..Len(SampleFunds) : data_dir = SampleDir(n)
    /\ chunks = _initialize_chunks(data_dir)
    /\ req = Nil
    /\ cls = Nil
    /\ resp = Nil
    /\ trace = <<>>
    /\ embeddings_cache = Nil
    /\ hash = Nil
    /\ rag_pipeline = Nil
    /\ rag_init_error = None
    /\ environ = Nil

\* a caller runs RAGPipeline.query(question, fund_name, top_k)
QueryFund ==
    /\ Idle
    /\ \E question \in RetrievalQuestions, fund_name \in RetrievalNames, top_k \in 1..MaxTopK :
          LET r == query(chunks, question, fund_name, top_k, <<Answered>>,
                         [n \in 1..Len(chunks) |-> 600])
          IN  /\ req' = [question |-> question, fund_name |-> fund_name, top_k |-> top_k]
              /\ resp' = r.resp
              /\ trace' = r.trace
    /\ UNCHANGED <<chunks, cls, data_dir, embeddings_cache, hash, api>>

\* query up to the filter of the chunks reads the question twice: a caller
\* runs is_general_finance_question(query) and _extract_fund_name_from_query(query)
ExtractFundName ==
    /\ Idle
    /\ \E question \in AliasQuestions :
          cls' = [query |-> question,
                  is_general_finance_question |-> is_general_finance_question(question),
                  fund_name |-> _extract_fund_name_from_query(question)]
    /\ UNCHANGED <<chunks, req, resp, trace, data_dir, embeddings_cache, hash, api>>

NextRetrieval == QueryFund \/ ExtractFundName \/ Return

SpecRetrieval == InitRetrieval /\ [][NextRetrieval]_vars

-----------------------------------------------------------------------------
(* RAGPipeline._hybrid_search on the vectors of the EmbeddingStore. Here
   chunk['embedding'] is the vector that generate_embeddings_batch returned
   for the passage, and the vector of the question is the one that
   generate_embedding returns for it, both under the hash function of the
   process and with the cache that was loaded. *)

\* cosine_similarity(vec1, vec2) of two vectors given by their directions, in
\* thousandths (rounded down): 0.0 if a norm is 0, else the dot product
\* divided by the product of the norms
RECURSIVE SumOver(_, _)
SumOver(S, f) ==
    IF S = {} THEN 0
    ELSE LET i == CHOOSE j \in S : TRUE IN f[i] + SumOver(S \ {i}, f)

\* dot_product / (norm1 * norm2), in thousandths, from the squares
quotient_of(dot_squared, norms_squared) ==
    CHOOSE k \in 0..SCALE :
        /\ k * k * norms_squared <= SCALE * SCALE * dot_squared
        /\ k < SCALE => (k + 1) * (k + 1) * norms_squared > SCALE * SCALE * dot_squared

dot_product_of(vec1, vec2, both) == SumOver(both, [i \in both |-> vec1[i] * vec2[i]])

vector_cosine_similarity(vec1, vec2) ==
    IF dot_product_of(vec1, vec1, DOMAIN vec1) = 0 \/ dot_product_of(vec2, vec2, DOMAIN vec2) = 0
    THEN 0
    ELSE quotient_of(dot_product_of(vec1, vec2, DOMAIN vec1 \cap DOMAIN vec2)
                        * dot_product_of(vec1, vec2, DOMAIN vec1 \cap DOMAIN vec2),
                     dot_product_of(vec1, vec1, DOMAIN vec1)
                        * dot_product_of(vec2, vec2, DOMAIN vec2))

\* the questions of the searches
SearchQuestions ==
    {"What is the expense ratio", "expense ratio and minimum sip",
     "Minimum SIP of HDFC Large and Mid Cap Fund", "Hello", ""}

\* the passages of the three sample funds
SearchPassages == process_all_funds(SampleDir(Len(SampleFunds)))

\* the questions of the callers of query on the index with its vectors
IndexQuestions ==
    {"Hello", "What is", "Should I invest", "the expense ratio", "What is hdfc elss"}

\* the strings that the process hashes: the texts and their words
SearchStrings ==
    LET texts == SearchQuestions \cup IndexQuestions \cup {SearchPassages[n].text : n \in 1..Len(SearchPassages)}
    IN  texts \cup UNION {{split(lower(t))[n] : n \in 1..Len(split(lower(t)))} : t \in texts}

\* hash() of the process: one of three functions
SearchHashes ==
    { [s \in SearchStrings |-> 0],
      [s \in SearchStrings |-> Len(s)],
      [s \in SearchStrings |-> 5 * Len(s) + (IF Contains("a", s) THEN 64 ELSE 0)] }

\* embeddings.json as another process left it: nothing, or the vector of a
\* text of four words under the key that the second passage has in this
\* process
SearchCaches(hash_fn) ==
    { [k \in {} |-> Nil],
      [k \in {text_hash(hash_fn, SearchPassages[2].text)} |->
          [embedding |-> [i \in {3, 4, 5, 7} |-> 1], text |-> "nav of the fund"]] }

\* the vectors that generate_embeddings_batch returns for the texts from text
\* n on
RECURSIVE batch_embeddings(_, _, _, _)
batch_embeddings(hash_fn, cache, texts, n) ==
    IF n > Len(texts) THEN <<>>
    ELSE <<generate_embedding(hash_fn, cache, texts[n]).embedding>>
            \o batch_embeddings(hash_fn, generate_embedding(hash_fn, cache, texts[n]).cache,
                                texts, n + 1)

\* the texts of the passages, as _initialize_chunks hands them over
PassageTexts == [n \in 1..Len(SearchPassages) |-> SearchPassages[n].text]

\* self.chunks after _initialize_chunks: chunk['embedding'] = embedding
indexed_chunks(embeddings) ==
    [n \in 1..Len(SearchPassages) |->
        [text |-> SearchPassages[n].text,
         metadata |-> SearchPassages[n].metadata,
         embedding |-> embeddings[n]]]

InitSearch ==
    /\ hash \in SearchHashes
    /\ data_dir = SampleDir(Len(SampleFunds))
    /\ \E cache \in SearchCaches(hash) :
          /\ chunks = indexed_chunks(batch_embeddings(hash, cache, PassageTexts, 1))
          /\ embeddings_cache = generate_embeddings_batch(hash, cache, PassageTexts, 1)
    /\ req = Nil
    /\ cls = Nil
    /\ resp = Nil
    /\ trace = <<>>
    /\ rag_pipeline = Nil
    /\ rag_init_error = None
    /\ environ = Nil

\* the vector of the question against the vectors of the index
query_embedding_of(embedding, all_chunks) ==
    [v \in {all_chunks[n].embedding : n \in 1..Len(all_chunks)} |->
        vector_cosine_similarity(embedding, v)]

\* query embeds the question and runs _hybrid_search(question, query_embedding,
\* search_chunks, top_k) on the chunks of the index
RunHybridSearch ==
    /\ Idle
    /\ \E question \in SearchQuestions, top_k \in 1..MaxTopK :
       \E generated \in {generate_embedding(hash, embeddings_cache, question)} :
       \E query_embedding \in {query_embedding_of(generated.embedding, chunks)} :
          /\ req' = [query |-> question, top_k |-> top_k]
          /\ resp' = [results |-> _hybrid_search(question, query_embedding, chunks, top_k)]
          /\ trace' = <<[call |-> "_hybrid_search",
                         results |-> scored_chunks(question, query_embedding, chunks)]>>
          /\ embeddings_cache' = generated.cache
    /\ UNCHANGED <<chunks, cls, data_dir, hash, api>>

\* the caller has the results
ReturnSearch ==
    /\ ~Idle
    /\ req' = Nil
    /\ resp' = Nil
    /\ trace' = <<>>
    /\ UNCHANGED <<chunks, cls, data_dir, embeddings_cache, hash, api>>

NextSearch == RunHybridSearch \/ ReturnSearch

SpecSearch == InitSearch /\ [][NextSearch]_vars

-----------------------------------------------------------------------------
(* RAGPipeline.query on the index with its vectors: every branch of query,
   with the vector of the question from the EmbeddingStore *)

\* what the generation endpoint answers during one call of query
IndexOutcomes ==
    {<<Answered>>, <<TimedOut>>, <<RateLimited, Answered>>,
     <<[kind |-> "no_candidates", text |-> "", code |-> 200, body_message |-> None]>>}

\* query reaches the filter of the chunks, generate_embedding and _hybrid_search
ReachesSearch(question) ==
    /\ ~is_greeting_of[question]
    /\ classify_query_of[question].can_answer
    /\ ~is_general_finance_question_of[question]

\* search_chunks of query: the chunks of self.chunks that pass the filter
search_chunks_in(all_chunks, question, fund_name) ==
    search_chunks_of(all_chunks,
        IF ~Truthy(fund_name) THEN _extract_fund_name_from_query_of[question]
        ELSE fund_name)

\* a loop over the chunks that computes chunk['embedding'] anew
embedded_chunks_recomputed(hash_fn, cache, all_chunks, search_chunks) ==
    [n \in 1..Len(all_chunks) |->
        IF \E k \in 1..Len(search_chunks) : search_chunks[k] = all_chunks[n]
        THEN [all_chunks[n] EXCEPT !.embedding = _simple_embedding(hash_fn, all_chunks[n].text)]
        ELSE all_chunks[n]]

\* self.chunks after the loop of _hybrid_search over search_chunks, whose
\* elements are the dicts of self.chunks: if 'embedding' not in chunk then
\* chunk['embedding'] = generate_embedding(chunk['text'])
embedded_chunks(hash_fn, cache, all_chunks, search_chunks) ==
    [n \in 1..Len(all_chunks) |->
        IF /\ \E k \in 1..Len(search_chunks) : search_chunks[k] = all_chunks[n]
           /\ "embedding" \notin DOMAIN all_chunks[n]
        THEN [f \in DOMAIN all_chunks[n] \cup {"embedding"} |->
                IF f = "embedding"
                THEN generate_embedding(hash_fn, cache, all_chunks[n].text).embedding
                ELSE all_chunks[n][f]]
        ELSE all_chunks[n]]

\* the characters of the fund names, in the order of their code points
CodePoints == " &-0123456789" \o UpperChars \o LowerChars

\* ord(c)
ord(c) == CHOOSE i \in 1..Len(CodePoints) : Char(CodePoints, i) = c

\* a < b for two strings
RECURSIVE StrLess(_, _)
StrLess(a, b) ==
    IF Len(b) = 0 THEN FALSE
    ELSE IF Len(a) = 0 THEN TRUE
    ELSE IF Char(a, 1) = Char(b, 1) THEN StrLess(SubSeq(a, 2, Len(a)), SubSeq(b, 2, Len(b)))
    ELSE ord(Char(a, 1)) < ord(Char(b, 1))

\* sorted(list(funds)) for a set of strings
SortStrings(funds) ==
    [i \in 1..Cardinality(funds) |->
        CHOOSE s \in funds : Cardinality({t \in funds : StrLess(t, s)}) = i - 1]

\* RAGPipeline.list_available_funds: sorted(list(funds)), by the position of
\* the name among the names in their order
list_available_funds(all_chunks) ==
    LET funds == {Get(all_chunks[n].metadata, "fund_name", "") : n \in 1..Len(all_chunks)}
                    \ {""}
    IN  SortStrings(funds)

\* the pipeline was constructed over the sample funds, with the vectors of
\* the EmbeddingStore
InitIndex == InitSearch

\* a caller runs RAGPipeline.query(question, fund_name, top_k)
QueryIndex ==
    /\ Idle
    /\ \E question \in IndexQuestions, fund_name \in FundNames, top_k \in TopKs,
          responses \in IndexOutcomes :
       \E generated \in {IF ReachesSearch(question)
                         THEN generate_embedding(hash, embeddings_cache, question)
                         ELSE [embedding |-> <<>>, cache |-> embeddings_cache]} :
       \E query_embedding \in {IF ReachesSearch(question)
                               THEN query_embedding_of(generated.embedding, chunks)
                               ELSE <<>>} :
       \E r \in {query(chunks, question, fund_name, top_k, responses, query_embedding)} :
          /\ req' = [question |-> question, fund_name |-> fund_name, top_k |-> top_k]
          /\ resp' = r.resp
          /\ trace' = r.trace
          /\ embeddings_cache' = generated.cache
          /\ chunks' = IF ReachesSearch(question)
                       THEN embedded_chunks(hash, generated.cache, chunks,
                                search_chunks_in(chunks, question, fund_name))
                       ELSE chunks
    /\ UNCHANGED <<cls, data_dir, hash, api>>

NextIndex == QueryIndex \/ Return

SpecIndex == InitIndex /\ [][NextIndex]_vars

-----------------------------------------------------------------------------
(* The vocabulary of the properties *)

\* query has returned to the caller of the request req
Returned == req # Nil

\* classify_query has returned to its caller
Classified == cls # Nil

Called(name) == \E n \in 1..Len(trace) : trace[n].call = name

CallCount(name) == Cardinality({n \in 1..Len(trace) : trace[n].call = name})

GenerationCalled ==
    Called("_generate_answer") \/ Called("_generate_general_finance_answer")

RetrievalCalled ==
    \/ Called("_extract_fund_name_from_query")
    \/ Called("generate_embedding")
    \/ Called("_hybrid_search")

\* the questions in which one of the PII patterns matches
MatchesPII ==
    [q \in Questions |-> \E n \in 1..Len(PII_TYPES) : PII_PATTERNS(PII_TYPES[n], q)]

\* the questions that contain a greeting phrase, in any case of the letters
ContainsGreeting == [q \in Questions |-> AnyIn(GREETING_PATTERNS, lower(q))]

\* the questions in which an opinionated keyword or a comparison pattern matches
MatchesOpinionated ==
    [q \in Questions |->
        \/ AnyIn(OPINIONATED_KEYWORDS, lower(q))
        \/ \E n \in 1..Len(comparison_patterns) :
              SearchDotStar(comparison_patterns[n][1], comparison_patterns[n][2], lower(q))]

\* the questions that contain one of the factual exclusion phrases
HasFactualExclusion == [q \in Questions |-> AnyIn(factual_exclusions, lower(q))]

\* the branch of query that ran, read from the calls it made
GreetingRan == Len(trace) > 0 /\ trace[1].call = "_generate_answer"
RejectedRan == Called("format_rejection_message")
GeneralRan == Called("_generate_general_finance_answer")
ProductRan == Called("_hybrid_search")

\* the number of passages that retrieval returned (-1: no retrieval)
Retrieved ==
    IF ProductRan
    THEN trace[CHOOSE n \in 1..Len(trace) : trace[n].call = "_hybrid_search"].returned
    ELSE -1

\* the funds of the passages that retrieval searched
SearchedFunds ==
    trace[CHOOSE n \in 1..Len(trace) : trace[n].call = "_hybrid_search"].funds

IndexedFunds == {chunks[n].metadata.fund_name : n \in 1..Len(chunks)}

\* the product the request is about: the name supplied, else the name found in
\* the question, else None
Product ==
    IF Truthy(req.fund_name) THEN req.fund_name
    ELSE _extract_fund_name_from_query_of[req.question]

\* the request names a product that has no passage in the index
MissingProduct == Product # None /\ Product \notin IndexedFunds

\* the sentences of a text: the non-empty pieces between sentence marks
Sentences(text) == SelectSeq(StripAll(ReSplit(text)), NonEmpty)

RejectionReasons == {"pii_detected", "opinionated", "not_factual"}

-----------------------------------------------------------------------------
(* The properties *)

\* C1: for every question in which a PII pattern matches, classify_query
\* returns can_answer = false and rejection_reason = "pii_detected", whatever
\* is_factual and is_opinionated are.
C1_PiiDominatesClassification ==
    Classified /\ MatchesPII[cls.query] =>
        /\ cls.result.can_answer = FALSE
        /\ cls.result.rejection_reason = "pii_detected"

\* a question with PII that is factual and opinionated as well was classified
C1_Witness ==
    /\ Classified
    /\ MatchesPII[cls.query]
    /\ cls.result.is_factual
    /\ cls.result.is_opinionated

\* C2: for every question in which a PII pattern matches, query returns
\* rejected = true with rejection_reason "pii_detected", confidence 0.0 and no
\* sources, and calls no generation, whatever else the question contains
\* (greeting phrases included).
C2_PiiRejectedEndToEnd ==
    Returned /\ MatchesPII[req.question] =>
        /\ Get(resp, "rejected", FALSE) = TRUE
        /\ Get(resp, "rejection_reason", Absent) = "pii_detected"
        /\ resp.confidence = 0
        /\ resp.sources = <<>>
        /\ ~GenerationCalled

C6_OpinionatedCitation ==
    Returned /\ Get(resp, "rejection_reason", Absent) = "opinionated" =>
        /\ Get(resp, "citation_link", "") # ""
        /\ Get(resp, "citation_link", "") = EDUCATIONAL_LINK

\* C7 as stated: for every question in which an opinionated pattern matches,
\* classify_query returns can_answer = false and rejection_reason =
\* "opinionated".
C7_OpinionatedAlwaysRejected ==
    Classified /\ MatchesOpinionated[cls.query] =>
        /\ cls.result.can_answer = FALSE
        /\ cls.result.rejection_reason = "opinionated"

\* C7: for every question in which an opinionated pattern matches and that
\* contains no factual exclusion phrase, classify_query returns can_answer =
\* false, and the reason is "opinionated" unless a PII pattern matches as
\* well: then it is "pii_detected".
C7_OpinionatedRejected ==
    Classified /\ MatchesOpinionated[cls.query] /\ ~HasFactualExclusion[cls.query] =>
        /\ cls.result.is_opinionated
        /\ cls.result.can_answer = FALSE
        /\ cls.result.rejection_reason =
              IF MatchesPII[cls.query] THEN "pii_detected" ELSE "opinionated"

\* a question in which only a comparison pattern matches was classified as
\* opinionated
C7_Witness ==
    /\ Classified
    /\ MatchesOpinionated[cls.query]
    /\ ~AnyIn(OPINIONATED_KEYWORDS, lower(cls.query))
    /\ ~HasFactualExclusion[cls.query]
    /\ ~MatchesPII[cls.query]
    /\ cls.result.rejection_reason = "opinionated"

\* C8: for every question, can_answer = is_factual and not is_opinionated
\* and not pii_detected; rejection_reason is null exactly when can_answer is
\* true, and otherwise it is the first that applies of pii_detected,
\* opinionated, not_factual.
C8_CanAnswerAndReason ==
    Classified =>
        LET r == cls.result
        IN  /\ r.can_answer = (r.is_factual /\ ~r.is_opinionated /\ r.pii_detected = {})
            /\ (r.rejection_reason = None) = r.can_answer
            /\ r.pii_detected # {} => r.rejection_reason = "pii_detected"
            /\ r.pii_detected = {} /\ r.is_opinionated => r.rejection_reason = "opinionated"
            /\ r.pii_detected = {} /\ ~r.is_opinionated /\ ~r.is_factual =>
                  r.rejection_reason = "not_factual"

\* a question was classified to which two reasons apply, and the first won
C8_Witness ==
    /\ Classified
    /\ cls.result.pii_detected = {}
    /\ cls.result.is_opinionated
    /\ ~cls.result.is_factual
    /\ cls.result.rejection_reason = "opinionated"

C10_NoPassagesResponse ==
    Returned /\ Retrieved = 0 =>
        /\ resp.answer = NO_INFORMATION
        /\ resp.confidence = 0
        /\ resp.sources = <<>>
        /\ Get(resp, "citation_link", "") = ""
        /\ Get(resp, "timestamp", None) = None
        /\ ~GenerationCalled

-----------------------------------------------------------------------------
(* The calls of the generation endpoint *)

\* the calls of the trace that went to the generation endpoint
GenerationEvents == {n \in 1..Len(trace) : "requests" \in DOMAIN trace[n]}

\* the answers the endpoint gave to the requests of the generation call of
\* the response, in order
Requests ==
    IF GenerationEvents = {} THEN <<>>
    ELSE trace[CHOOSE n \in GenerationEvents : TRUE].requests

IsFailure(response) == response.kind \in {"http_error", "exception"}

IsRateLimit(response) == response.kind = "http_error" /\ response.code = 429

\* the generation call of the response failed: the endpoint failed its last
\* request
GenerationFailed == Requests # <<>> /\ IsFailure(Requests[Len(Requests)])

\* the text that _generate_answer returned in the product-specific branch
ProductGeneratedText == _generate_answer("", "", Requests)

\* any(keyword in answer.lower() ...) on each text that generation can return
HasErrorPhrase == [text \in GeneratedTexts |-> AnyIn(error_keywords, lower(text))]

\* the product-specific branch got a generated text
ProductGenerated == ProductRan /\ Called("_generate_answer")

\* the messages that _generate_answer returns for a failed call
SafeMessages ==
    {"The API is currently experiencing high traffic. Please wait a moment and try again. If this persists, you may have reached your API quota limit.",
     "The service is temporarily unavailable due to high demand. Please try again in a few moments.",
     "The API is currently experiencing high traffic. Please wait a moment and try again.",
     "I encountered an error while generating the answer. Please try again later."}

\* C11: on every failure of the generation endpoint (rate limit after the
\* retries, another HTTP error, a network error), in whichever branch, the
\* response of query has an empty citation_link and a null timestamp; in the
\* product-specific branch, whenever the generated text holds a phrase of the
\* error list, confidence is 0 and sources are empty although retrieval
\* returned passages.
C11_FailureSuppressesCitation ==
    /\ Returned /\ GenerationFailed =>
          /\ "citation_link" \in DOMAIN resp /\ resp.citation_link = ""
          /\ "timestamp" \in DOMAIN resp /\ resp.timestamp = None
    /\ Returned /\ ProductGenerated /\ HasErrorPhrase[ProductGeneratedText] =>
          /\ resp.confidence = 0
          /\ resp.sources = <<>>

\* the endpoint stayed rate-limited through all retries of a product-specific
\* query whose retrieval returned passages
C11_Witness ==
    /\ Returned
    /\ ProductGenerated
    /\ Retrieved > 0
    /\ GenerationFailed
    /\ Len(Requests) = max_retries + 1
    /\ IsRateLimit(Requests[1])
    /\ resp.confidence = 0
    /\ resp.citation_link = ""

\* C12: every call of the generation endpoint made while handling a query
\* (greeting, general finance, product-specific) is retried when the endpoint
\* answers with HTTP 429: no branch gives up after one rate-limited request.
C12_RateLimitRetried ==
    Returned /\ Requests # <<>> /\ IsRateLimit(Requests[1]) => Len(Requests) >= 2

\* C13: when the generation endpoint finally fails, in any branch of query,
\* the answer is one of the fixed user-safe messages and holds nothing of the
\* text of the exception or HTTP error.
C13_FailureMessageIsSafe ==
    Returned /\ GenerationFailed =>
        /\ resp.answer \in SafeMessages
        /\ ~Contains(Requests[Len(Requests)].text, resp.answer)

-----------------------------------------------------------------------------
(* The answers of the product-specific branch *)

\* the passages that retrieval returned, each with its metadata and its
\* combined score, in the order of _hybrid_search
Results ==
    IF ProductRan
    THEN trace[CHOOSE n \in 1..Len(trace) : trace[n].call = "_hybrid_search"].results
    ELSE <<>>

\* the product-specific branch returned a formatted answer: passages were
\* retrieved and the generated text is no error message
ProductAnswered ==
    /\ Returned
    /\ ProductGenerated
    /\ Retrieved > 0
    /\ ~HasErrorPhrase[ProductGeneratedText]

\* what sources lists of a retrieved passage
SourceOf(result) ==
    [fund_name |-> result.metadata.fund_name,
     chunk_type |-> result.metadata.chunk_type,
     similarity |-> result.similarity]

\* C14: for every product-specific query that retrieves at least one passage
\* and whose generated text is no error message, confidence is the highest
\* combined score among the retrieved passages, and sources lists, for each
\* retrieved passage, its product name, category and similarity, in
\* descending order of the score. (Scores are thousandths, the unit that
\* round(x, 3) keeps.)
C14_ConfidenceAndSources ==
    ProductAnswered =>
        /\ \E n \in 1..Len(Results) : resp.confidence = Results[n].similarity
        /\ \A n \in 1..Len(Results) : resp.confidence >= Results[n].similarity
        /\ Len(resp.sources) = Len(Results)
        /\ \E f \in Permutations(1..Len(Results)) :
              \A n \in 1..Len(Results) : resp.sources[n] = SourceOf(Results[f[n]])
        /\ \A n \in 1..Len(resp.sources), m \in 1..Len(resp.sources) :
              n < m => resp.sources[n].similarity >= resp.sources[m].similarity

\* two passages with different scores were retrieved and the answer lists
\* both
C14_Witness ==
    /\ ProductAnswered
    /\ Len(Results) = 2
    /\ Results[1].similarity > Results[2].similarity
    /\ Len(resp.sources) = 2
    /\ resp.confidence > 0

-----------------------------------------------------------------------------
(* The hybrid search *)

\* the call of _hybrid_search that query made
HybridSearch == trace[CHOOSE n \in 1..Len(trace) : trace[n].call = "_hybrid_search"]

\* the place in the candidate list of the n-th result
CandidateOf(n) ==
    CHOOSE k \in 1..Len(HybridSearch.candidates) :
        HybridSearch.candidates[k].embedding = HybridSearch.results[n].embedding

\* the places in the candidate list of the candidates left out
LeftOut ==
    {k \in 1..Len(HybridSearch.candidates) :
        \A n \in 1..Len(HybridSearch.results) :
            HybridSearch.candidates[k].embedding # HybridSearch.results[n].embedding}

\* C15: for every question, candidate list and top_k >= 0, _hybrid_search
\* returns min(top_k, number of candidates) results, each a candidate with
\* its combined score, in non-increasing order of the score; results of equal
\* score keep the order of the candidate list; every result scores at least
\* as high as every candidate left out.
C15_HybridSearchTopK ==
    Returned /\ ProductRan =>
        LET results == HybridSearch.results
            candidates == HybridSearch.candidates
        IN  /\ Len(results) = Min(HybridSearch.top_k, Len(candidates))
            /\ \A n \in 1..Len(results) :
                  \E k \in 1..Len(candidates) :
                      /\ candidates[k].embedding = results[n].embedding
                      /\ candidates[k].similarity = results[n].similarity
            /\ \A n \in 1..Len(results), m \in 1..Len(results) :
                  n < m =>
                      /\ results[n].similarity >= results[m].similarity
                      /\ results[n].embedding # results[m].embedding
                      /\ results[n].similarity = results[m].similarity
                            => CandidateOf(n) < CandidateOf(m)
            /\ \A n \in 1..Len(results), k \in LeftOut :
                  results[n].similarity >= candidates[k].similarity

\* a search over two candidates of equal score returned both, and a search
\* returned the later candidate and left the earlier one out
C15_WitnessTie ==
    /\ Returned /\ ProductRan
    /\ Len(HybridSearch.results) = 2
    /\ HybridSearch.results[1].similarity = HybridSearch.results[2].similarity

C15_Witness ==
    /\ Returned /\ ProductRan
    /\ HybridSearch.top_k = 1
    /\ Len(HybridSearch.results) = 1
    /\ LeftOut = {1}
    /\ HybridSearch.results[1].similarity > HybridSearch.candidates[1].similarity

-----------------------------------------------------------------------------
(* The citation and the cap of the answers *)

\* the retrieved passages that carry a primary_source_url
WithPrimaryUrl ==
    {n \in 1..Len(Results) :
        /\ "primary_source_url" \in DOMAIN Results[n].metadata
        /\ StartsWith(Results[n].metadata.primary_source_url, "http")}

\* the source_urls of all retrieved passages
AllSourceUrls ==
    UNION {{Results[n].metadata.source_urls[u] :
                u \in 1..Len(Results[n].metadata.source_urls)} :
           n \in {m \in 1..Len(Results) : "source_urls" \in DOMAIN Results[m].metadata}}

\* the domains of the priority list that a url of the set matches
DomainsOf(urls) ==
    {d \in 1..Len(domain_priority) : \E u \in urls : Contains(domain_priority[d], u)}

\* the product-specific branch returned an answer with a citation
ProductCited == ProductAnswered /\ resp.citation_link # ""

\* C16: when a cited answer is returned for a product-specific query, if any
\* retrieved passage carries a primary_source_url, citation_link is such a
\* primary_source_url; otherwise it is the match of the highest-priority
\* domain over the source_urls of all retrieved passages (any of the urls if
\* no domain matches); only if the passages carry no URLs is it the link of
\* the per-product table, the product-name slug or the educational URL.
C16_CitationPriority ==
    ProductCited =>
        IF WithPrimaryUrl # {}
        THEN \E n \in WithPrimaryUrl :
                resp.citation_link = Results[n].metadata.primary_source_url
        ELSE IF AllSourceUrls # {}
        THEN /\ resp.citation_link \in AllSourceUrls
             /\ DomainsOf(AllSourceUrls) # {} =>
                   \E d \in DomainsOf(AllSourceUrls) :
                       /\ \A e \in DomainsOf(AllSourceUrls) : d <= e
                       /\ Contains(domain_priority[d], resp.citation_link)
        ELSE \/ resp.citation_link = _get_url_from_config(Product)
             \/ StartsWith(resp.citation_link, FACTSHEET_BASE_URL \o "/")
             \/ resp.citation_link = EDUCATIONAL_LINK

\* the call of the generation endpoint of the response ended with a text
GenerationSucceeded == Requests # <<>> /\ Requests[Len(Requests)].kind = "result"

\* the text that the generation call of the response returned
GeneratedText ==
    IF GeneralRan THEN _generate_general_finance_answer("", Requests)
    ELSE _generate_answer("", "", Requests)

\* the query was answered from a generated text, in the general-finance or
\* the product-specific branch
AnsweredFromText ==
    /\ Returned
    /\ GeneralRan \/ ProductGenerated
    /\ GenerationSucceeded

\* the no-information hedge was detected in the generated text
HedgeDetected == _indicates_no_information_of[_remove_performance_claims_of[GeneratedText]]

CITATION_PREFIX == "Last updated from sources:"

\* the answer up to the citation text
BodyOf(answer) ==
    LET at == {i \in 1..Len(answer) : LitAt(answer, i, CITATION_PREFIX)}
    IN  IF at = {} THEN answer
        ELSE SubSeq(answer, 1, (CHOOSE i \in at : \A j \in at : i <= j) - 1)

\* C17: for every query that is answered successfully (not rejected, the
\* generation not failed), product-specific or general-finance, the body of
\* the answer before the citation has at most 3 sentences, and the answer
\* holds "Last updated from sources:" unless the no-information hedge was
\* detected in the generated text.
C17_CapAndCitationText ==
    AnsweredFromText =>
        /\ Len(Sentences(BodyOf(resp.answer))) <= MAX_SENTENCES
        /\ ~HedgeDetected => Contains(CITATION_PREFIX, resp.answer)

-----------------------------------------------------------------------------
(* The passages of the document processor *)

\* process_fund_to_chunks has returned the passages of the record req.fund_data
Chunked == req # Nil

\* the fields mapping of a record
FieldsOf(fund_data) == Get(fund_data, "data", <<>>)

\* the record has a field that the passage of the category renders
HasFieldOf(chunk_type, data) ==
    IF chunk_type = "additional_info"
    THEN \E i \in 1..Len(data) :
            /\ data[i].key \notin excluded_fields
            /\ ~EndsWith(data[i].key, "_alternatives")
            /\ bool(data[i].value) /\ strip(str(data[i].value)) # ""
    ELSE \/ \E n \in 1..Len(category_fields[chunk_type]) :
              Has(data, category_fields[chunk_type][n][1])
         \/ chunk_type = "fees_charges" /\ Has(data, "expense_ratio")

\* C18: for every record, process_fund_to_chunks returns at most five
\* passages of pairwise distinct categories, the passage of a category is
\* there only if the record has a field of that category, and a record whose
\* fields mapping is empty or absent has no passage.
C18_PassagesOfRecord ==
    Chunked =>
        LET passages == resp.chunks
            data == FieldsOf(req.fund_data)
        IN  /\ Len(passages) <= Len(chunk_types)
            /\ \A i, j \in 1..Len(passages) :
                  i # j => passages[i].metadata.chunk_type # passages[j].metadata.chunk_type
            /\ \A i \in 1..Len(passages) : HasFieldOf(passages[i].metadata.chunk_type, data)
            /\ (Len(data) = 0 => Len(passages) = 0)

\* the records of the data directory that process_all_funds reads
RecordsOf(dir) ==
    (IF Len(dir.consolidated_files) > 0
     THEN Get(latest_consolidated(dir.consolidated_files).json, "funds", <<>>)
     ELSE <<>>)
        \o [n \in 1..Len(dir.individual_files) |-> dir.individual_files[n].json]

\* the product and the category of a passage
PairOf(chunk) == <<chunk.metadata.fund_name, chunk.metadata.chunk_type>>

\* the (product, category) pairs present in the records
PairsOf(records) ==
    UNION {{PairOf(process_fund_to_chunks(records[n])[i]) :
                i \in 1..Len(process_fund_to_chunks(records[n]))} : n \in 1..Len(records)}

\* C19: every index built from the data directory holds exactly one passage
\* per (product, category) pair present in the records, whether a product is
\* in the consolidated file, in an individual file or in both, and building
\* it again yields the same passages.
C19_OnePassagePerPair ==
    \A n \in 1..Len(trace) :
        /\ \A pair \in PairsOf(RecordsOf(data_dir)) :
              Cardinality({i \in 1..Len(trace[n]) : PairOf(trace[n][i]) = pair}) = 1
        /\ \A i \in 1..Len(trace[n]) : PairOf(trace[n][i]) \in PairsOf(RecordsOf(data_dir))
        /\ trace[n] = trace[1]

-----------------------------------------------------------------------------
(* The vectors of the embedding store *)

\* C20: every call of generate_embedding returns the vector that
\* _simple_embedding computes from its text alone, whatever the cache held
\* when it was loaded and whatever calls came before, two calls with the same
\* text return equal vectors, and an entry of the cache is served only for
\* the text it was recorded for.
C20_EmbeddingIsPure ==
    \A n \in 1..Len(trace) :
        /\ trace[n].embedding = _simple_embedding(hash, trace[n].text)
        /\ \A m \in 1..Len(trace) :
              trace[m].text = trace[n].text => trace[m].embedding = trace[n].embedding
        /\ trace[n].served \in {None, Take(trace[n].text, 100)}

-----------------------------------------------------------------------------
(* The initialization of the pipeline by the API *)

\* /api/query has answered the request req
ApiAnswered == req # Nil /\ "question" \in DOMAIN req

\* a request arrives: the step of an endpoint
RequestStep == req = Nil /\ req' # Nil

\* the environment lets the pipeline be constructed
CanInitialize(env) ==
    /\ env.GEMINI_API_KEY # None /\ env.GEMINI_API_KEY # ""
    /\ \E n \in 1..Len(data_paths) : data_paths[n] \in env.exists
    /\ env.storage = None

\* C21: while the initialization has failed, /api/query answers 503 with the
\* stored initialization error and with no answer of a query; the global
\* pipeline is set only by an initialization that succeeds, which clears the
\* stored error; and a request that finds no pipeline attempts the
\* initialization again.
C21_InitializationFailure ==
    /\ [](/\ rag_pipeline # Nil => rag_init_error = None
          /\ ApiAnswered /\ rag_pipeline = Nil =>
                /\ resp.status_code = 503
                /\ rag_init_error # None
                /\ resp.detail = rag_init_error
                /\ "answer" \notin DOMAIN resp
          /\ ApiAnswered /\ rag_pipeline # Nil => resp.status_code = 200)
    /\ [][RequestStep =>
            IF rag_pipeline = Nil
            THEN (rag_pipeline' # Nil) = CanInitialize(environ)
            ELSE rag_pipeline' = rag_pipeline]_vars

\* a query was refused because the initialization failed
C21_Witness == ApiAnswered /\ rag_pipeline = Nil /\ resp.status_code = 503

-----------------------------------------------------------------------------
(* The retries of the generation request *)

\* the requests made so far by the call in progress, and the waits slept
Urlopens == SelectSeq(trace, LAMBDA e : e.event = "urlopen")
Sleeps == SelectSeq(trace, LAMBDA e : e.event = "sleep")

\* a failure that the loop retries: a rate limit, or an exception other
\* than an HTTP error
Retryable(response) ==
    \/ response.kind = "http_error" /\ response.code = 429
    \/ response.kind = "exception"

Successful(response) == response.kind \in {"result", "no_candidates"}

InRetryCall == req # Nil /\ "attempt" \in DOMAIN req
RetryEnded == InRetryCall /\ resp # Nil

-----------------------------------------------------------------------------
(* The candidates of retrieval *)

\* the passages of the index that retrieval scored, by their place in the index
Candidates ==
    LET search == trace[CHOOSE n \in 1..Len(trace) : trace[n].call = "_hybrid_search"]
    IN  [n \in 1..Len(search.candidates) |-> search.candidates[n].embedding]

\* the places of a set of places of the index, in the order of the index
PassagesWith(places) ==
    SelectSeq([n \in 1..Len(chunks) |-> n], LAMBDA n : n \in places)

\* the tokens of a name, without "the", "fund" and "mutual"
NameTokens(name) == SplitWords(lower(name)) \ {"the", "fund", "mutual"}

\* at least 60% of the tokens of the name are tokens of the product
MostTokensIn(name, product) ==
    5 * Cardinality(NameTokens(name) \cap SplitWords(lower(product)))
        >= 3 * Cardinality(NameTokens(name))

\* C23: the candidates of retrieval for a product name, supplied or extracted,
\* are the passages whose product name contains it, case ignored, if there is
\* one; else the passages of whose product at least 60% of the tokens of the
\* name (without "the", "fund", "mutual") are tokens, if there is one; else
\* the whole index. Without a name, supplied or found by an alias, they are
\* the whole index.
C23_RetrievalCandidates ==
    Returned /\ ProductRan =>
        LET exact == PassagesWith({n \in 1..Len(chunks) :
                        Contains(lower(Product), lower(chunks[n].metadata.fund_name))})
            fuzzy == PassagesWith({n \in 1..Len(chunks) :
                        MostTokensIn(Product, chunks[n].metadata.fund_name)})
            index == [n \in 1..Len(chunks) |-> n]
        IN  Candidates = IF Product = None THEN index
                         ELSE IF exact # <<>> THEN exact
                         ELSE IF fuzzy # <<>> THEN fuzzy
                         ELSE index

\* retrieval searched the passages of the one product that matches the name
\* fuzzily, no product name containing it
C23_Witness ==
    /\ Returned
    /\ ProductRan
    /\ Product # None
    /\ \A n \in 1..Len(chunks) :
          ~Contains(lower(Product), lower(chunks[n].metadata.fund_name))
    /\ Candidates # <<>>
    /\ Len(Candidates) < Len(chunks)

-----------------------------------------------------------------------------
(* The product of a request and the general-knowledge branch *)

\* C24: the general-knowledge branch is taken only for a request that names
\* no product: a request with a product name supplied by the caller and an
\* answerable question that is no greeting is answered by retrieval over the
\* passages of the index, not from the general knowledge of the model.
C24_ExplicitProductRetrieval ==
    /\ Returned
    /\ Truthy(req.fund_name)
    /\ ~is_greeting_of[req.question]
    /\ classify_query_of[req.question].can_answer
    => /\ ~GeneralRan
       /\ ProductRan
       /\ req.fund_name \in IndexedFunds => SearchedFunds = {req.fund_name}

-----------------------------------------------------------------------------
(* The known names of products *)

\* the aliases of the products, each with the canonical name of its product
KnownAliases ==
    { [alias |-> "hdfc large and mid cap fund", name |-> "HDFC Large and Mid Cap Fund"],
      [alias |-> "hdfc flexi cap fund", name |-> "HDFC Flexi Cap Fund"],
      [alias |-> "hdfc elss", name |-> "HDFC ELSS Tax Saver Fund"],
      [alias |-> "hdfc elss tax saver", name |-> "HDFC ELSS Tax Saver Fund"],
      [alias |-> "hdfc elss fund", name |-> "HDFC ELSS Tax Saver Fund"] }

\* the canonical names of the aliases that a question holds
AliasNames(question) ==
    {a.name : a \in {x \in KnownAliases : Contains(x.alias, lower(question))}}

\* the two functions have returned to the caller that asked about cls.query
Extracted == cls # Nil /\ "fund_name" \in DOMAIN cls

\* C25: for every question that holds a known alias of a product,
\* is_general_finance_question is false, _extract_fund_name_from_query
\* returns the canonical name of an alias the question holds, query does
\* not take the general-knowledge branch and, without a name supplied by the
\* caller, retrieval is about that canonical name.
C25_AliasIsNotGeneral ==
    /\ Extracted /\ AliasNames(cls.query) # {} =>
          /\ ~cls.is_general_finance_question
          /\ cls.fund_name \in AliasNames(cls.query)
    /\ Returned /\ AliasNames(req.question) # {} =>
          /\ ~is_general_finance_question_of[req.question]
          /\ ~GeneralRan
          /\ ProductRan /\ ~Truthy(req.fund_name) =>
                /\ Product \in AliasNames(req.question)
                /\ Product \in IndexedFunds => SearchedFunds = {Product}

\* a question that starts as a general question and holds an alias and a
\* financial term was answered by retrieval about the product of the alias
C25_Witness ==
    /\ Returned
    /\ req.question = "What is hdfc elss"
    /\ req.fund_name = None
    /\ ProductRan
    /\ Product = "HDFC ELSS Tax Saver Fund"

-----------------------------------------------------------------------------
(* The scores of the hybrid search *)

\* _hybrid_search has returned to the caller of the search req
Searched == req # Nil /\ "query" \in DOMAIN req

\* the results of the search before the sort: one for each passage
Scored == trace[1].results

\* the rules of the intent: the words that trigger a rule and its category
IntentRules ==
    { [words |-> {"expense", "ratio"}, category |-> "fees_charges"],
      [words |-> {"exit load"}, category |-> "fees_charges"],
      [words |-> {"sip", "minimum"}, category |-> "investment_details"],
      [words |-> {"lock"}, category |-> "investment_details"],
      [words |-> {"riskometer", "benchmark"}, category |-> "risk_performance"] }

Triggered(rule, question) == \E w \in rule.words : Contains(w, lower(question))

\* the important terms that the question and the text of the passage hold
SharedTerms(question, text) ==
    {n \in 1..Len(important_terms) :
        /\ Contains(important_terms[n], lower(question))
        /\ Contains(important_terms[n], lower(text))}

\* C26: for every question and passage, keyword_boost is 0.3 for each
\* important term that the question and the text of the passage both hold,
\* plus 0.2 if a rule of the intent that the question triggers maps to the
\* category of the passage.
C26_KeywordBoost ==
    Searched =>
        \A n \in 1..Len(Scored) :
            Scored[n].keyword_boost
               = 300 * Cardinality(SharedTerms(req.query, Scored[n].chunk.text))
                   + (IF \E rule \in IntentRules :
                            /\ Triggered(rule, req.query)
                            /\ rule.category = Scored[n].chunk.metadata.chunk_type
                      THEN 200 ELSE 0)

\* a passage whose vector this process did not compute: generate_embedding
\* served it from the cache that was loaded
ServedFromCache(n) == chunks[n].embedding # _simple_embedding(hash, chunks[n].text)

-----------------------------------------------------------------------------
(* The primary source of a passage *)

\* the domains of the sources, from the highest priority to the lowest
PriorityDomains == <<"hdfcfund.com", "sebi.gov.in", "amfiindia.com", "groww.in">>

\* the URLs of a list, as a set
UrlsOf(source_urls) == {source_urls[u] : u \in 1..Len(source_urls)}

\* the URL is chosen by the priority of the domains: where a URL of the list
\* holds a domain, the chosen one is the first URL of the list with the
\* highest domain that the list has
ChosenByPriority(url, source_urls) ==
    \A d \in 1..Len(PriorityDomains) :
        /\ \E other \in UrlsOf(source_urls) : Contains(PriorityDomains[d], other)
        /\ \A e \in 1..(d - 1) :
              \A other \in UrlsOf(source_urls) : ~Contains(PriorityDomains[e], other)
        => \E u \in 1..Len(source_urls) :
              /\ url = source_urls[u]
              /\ Contains(PriorityDomains[d], url)
              /\ \A v \in 1..(u - 1) : ~Contains(PriorityDomains[d], source_urls[v])

\* a URL that can be chosen: it holds a domain of the list or starts with http
Usable(url) ==
    \/ \E d \in 1..Len(PriorityDomains) : Contains(PriorityDomains[d], url)
    \/ StartsWith(url, "http")

\* C28 as stated: in every passage of a record that declares a source URL,
\* primary_source_url is one of the URLs of the record, chosen by the priority
\* of the domains; the override table and the default URL are used only for a
\* record that declares no source URL.
C28_PrimaryAmongDeclared ==
    Chunked =>
        \A i \in 1..Len(resp.chunks) :
            LET metadata == resp.chunks[i].metadata
            IN  IF Len(metadata.source_urls) > 0
                THEN /\ metadata.primary_source_url \in UrlsOf(metadata.source_urls)
                     /\ ChosenByPriority(metadata.primary_source_url, metadata.source_urls)
                ELSE metadata.primary_source_url = _get_fallback_url(metadata.fund_name)

\* C28: in every passage of a record that declares a source URL which holds a
\* domain of the priority list or starts with "http", primary_source_url is
\* one of the URLs of the record: the first one with the highest domain of the
\* list, else the first one that starts with "http". The override table and
\* the default URL are used for a record that declares no such URL.
C28_PrimarySourceUrl ==
    Chunked =>
        \A i \in 1..Len(resp.chunks) :
            LET metadata == resp.chunks[i].metadata
                urls == metadata.source_urls
                primary == metadata.primary_source_url
            IN  /\ urls = SourceUrls(Get(req.fund_data, "sources", <<>>))
                /\ IF \E url \in UrlsOf(urls) : Usable(url)
                   THEN /\ primary \in UrlsOf(urls)
                        /\ Usable(primary)
                        /\ ChosenByPriority(primary, urls)
                        /\ \A u \in 1..Len(urls) :
                              urls[u] = primary =>
                                 \A v \in 1..(u - 1) :
                                    Usable(urls[v]) =>
                                       \E d \in 1..Len(PriorityDomains) :
                                          /\ Contains(PriorityDomains[d], primary)
                                          /\ ~Contains(PriorityDomains[d], urls[v])
                   ELSE primary = _get_fallback_url(metadata.fund_name)

\* a passage of a record with two source URLs has the second one as its
\* primary source, for its domain
C28_Witness ==
    /\ Chunked
    /\ Len(resp.chunks) > 0
    /\ LET metadata == resp.chunks[1].metadata
       IN  /\ Len(metadata.source_urls) = 2
           /\ metadata.primary_source_url = metadata.source_urls[2]
           /\ Contains("sebi.gov.in", metadata.primary_source_url)
           /\ Contains("groww.in", metadata.source_urls[1])

-----------------------------------------------------------------------------
(* The passage of the other fields *)

\* the fields that the passages of the four categories render
RenderedFields ==
    {"expense_ratio"}
      \cup UNION {{category_fields[c][n][1] : n \in 1..Len(category_fields[c])} :
                     c \in DOMAIN category_fields}

\* the fields of a record that are left to the passage of the other fields:
\* not empty, rendered by no other passage and no alternatives of a field
OtherFields(data) ==
    SelectSeq(data, LAMBDA item :
        /\ item.key \notin RenderedFields
        /\ item.key # "fund_name"
        /\ ~EndsWith(item.key, "_alternatives")
        /\ bool(item.value)
        /\ strip(str(item.value)) # "")

\* the passages of the category among the passages returned
PassagesOf(chunk_type) ==
    SelectSeq(resp.chunks, LAMBDA chunk : chunk.metadata.chunk_type = chunk_type)

\* C29: for every record, the passage of the other fields renders exactly the
\* fields that are not empty, that no passage of the four other categories
\* renders and whose names do not end in _alternatives, one line for each;
\* without such a field there is no such passage.
C29_OtherPassage ==
    Chunked =>
        LET other == OtherFields(FieldsOf(req.fund_data))
            fund_name == Get(req.fund_data, "fund_name", "Unknown Fund")
        IN  IF Len(other) = 0 THEN Len(PassagesOf("additional_info")) = 0
            ELSE /\ Len(PassagesOf("additional_info")) = 1
                 /\ PassagesOf("additional_info")[1].text
                       = Join(<<"Additional Information for " \o fund_name \o ":">>
                                 \o [n \in 1..Len(other) |->
                                        title(other[n].key) \o ": " \o str(other[n].value)],
                              "\n")

-----------------------------------------------------------------------------
(* The index under queries *)

\* the index is the one that _initialize_chunks built from the data
\* directory: the same passages in the same order, each with a vector
IndexAsBuilt ==
    LET all == process_all_funds(data_dir)
    IN  /\ Len(chunks) = Len(all)
        /\ \A n \in 1..Len(all) :
              /\ chunks[n].text = all[n].text
              /\ chunks[n].metadata = all[n].metadata
              /\ "embedding" \in DOMAIN chunks[n]
        /\ list_available_funds(chunks)
              = SortStrings({all[n].metadata.fund_name : n \in 1..Len(all)} \ {""})

\* C30: after the index is built no call of query, in any branch and with any
\* outcome of the generation, changes the index: the passages, their order,
\* texts, metadata and vectors stay as they were after the initialization, and
\* list_available_funds returns the same sorted list of the distinct fund names.
C30_IndexUnchanged ==
    /\ []IndexAsBuilt
    /\ [][/\ chunks' = chunks
          /\ list_available_funds(chunks') = list_available_funds(chunks)]_vars

\* a query went through the hybrid search, returned passages and stored the
\* vector of its question; the funds are not listed in the order of the index
C30_Witness ==
    /\ req # Nil
    /\ "question" \in DOMAIN req
    /\ \E n \in 1..Len(trace) : trace[n].call = "_hybrid_search" /\ trace[n].returned > 0
    /\ text_hash(hash, req.question) \in DOMAIN embeddings_cache
    /\ embeddings_cache[text_hash(hash, req.question)].text = req.question
    /\ list_available_funds(chunks) # <<>>
    /\ \E n \in 1..Len(chunks) : chunks[n].metadata.fund_name # list_available_funds(chunks)[1]
    /\ chunks[1].metadata.fund_name # list_available_funds(chunks)[1]

====
